---- MODULE Spec2Model ----
(***************************************************************************)
(* A model of the ML experiment tracker: the typed API client              *)
(* (frontend/lib/api.ts, src/unnamed/part_000), the REST backend it talks  *)
(* to (experiment, metric and artifact stores) and the dashboard's local   *)
(* search.  The backend's code (app/) is not among the sources; its        *)
(* handlers are written from the design document and are marked as such.   *)
(*                                                                         *)
(* Strings that the code inspects character by character (experiment       *)
(* names, tags, the search text) are sequences of one-character strings.   *)
(* Strings the code only compares as a whole (status, metric names, URL    *)
(* literals) are TLA+ strings.  Metric values are integers; an average is  *)
(* kept as the exact fraction num/den.                                     *)
(***************************************************************************)
EXTENDS Integers, Sequences, FiniteSets, Bags, TLC

VARIABLES
    experiments,     \* experiment store: sequence of Experiment rows, in store order
    metrics,         \* metric store: sequence of Metric rows, in insertion order
    artifacts,       \* artifact store: sequence of Artifact rows (with payload)
    nextExperimentId,\* id the store gives to the next created experiment
    nextMetricId,    \* id the store gives to the next logged point
    nextArtifactId,  \* id the store gives to the next uploaded artifact
    net,             \* bag of API calls in flight (request sent, not yet handled)
    last,            \* the call the backend handled most recently, with its response
    createdAs,       \* for every id a create returned: the data that create was given
    fetched,         \* dashboard: data of the ['experiments', page, statusFilter] query
    searchQuery,     \* dashboard: text of the search box
    page,            \* dashboard: page number
    statusFilter,    \* dashboard: value of the status select
    sortBy,          \* dashboard: sort key, 'date' | 'status' | 'name'
    sortOrder,       \* dashboard: sort direction, 'asc' | 'desc'
    form,            \* new-experiment page: name, hyperparameters text, tags, error
    mutations,       \* state of every useMutation of the pages
    detail,          \* experiment page: its id and the data of its queries
    download,        \* experiment page: state of handleDownload
    sent,            \* the requests the pages' mutations and downloads have issued
    invoked,         \* how many times a page has invoked a mutation or download
    lastEvent        \* the page handler that ran last; tick flips when one runs

storeVars == <<experiments, metrics, artifacts,
               nextExperimentId, nextMetricId, nextArtifactId>>
netVars   == <<net, last, createdAs>>
sortVars  == <<sortBy, sortOrder>>
dashVars  == <<fetched, searchQuery, page, statusFilter, sortBy, sortOrder>>
uiVars    == <<form, mutations, detail, download, sent, invoked, lastEvent>>
vars      == <<experiments, metrics, artifacts,
               nextExperimentId, nextMetricId, nextArtifactId,
               net, last, createdAs, fetched, searchQuery, page, statusFilter,
               sortBy, sortOrder, form, mutations, detail, download, sent, invoked,
               lastEvent>>

(***************************************************************************)
(* Bounds of the model.                                                    *)
(***************************************************************************)
MaxCreates   == 2    \* experiments ever created in one behaviour
MaxInFlight  == 2    \* API calls that may be in flight at once
MaxMetrics   == 4    \* metric points ever logged in one behaviour
MaxArtifacts == 2    \* artifacts ever uploaded in one behaviour
MaxStore     == 45   \* experiments in the store when the dashboard is opened
MaxCalls     == 2    \* mutations and downloads the pages invoke in one behaviour

(***************************************************************************)
(* Generic helpers.                                                        *)
(***************************************************************************)
Range(s) == {s[i] : i \in DOMAIN s}

IsPrefix(s, t) == Len(s) <= Len(t) /\ SubSeq(t, 1, Len(s)) = s

Min2(a, b) == IF a <= b THEN a ELSE b

Max2(a, b) == IF a >= b THEN a ELSE b

RECURSIVE SeqSum(_)
SeqSum(s) == IF s = <<>> THEN 0 ELSE Head(s) + SeqSum(Tail(s))

(***************************************************************************)
(* Values of the status enumeration of an Experiment.                      *)
(***************************************************************************)
Statuses == {"running", "completed", "failed"}

(* The values the status dropdown offers, whatever the current status is. *)
SelectItems == {"running", "completed", "failed"}

(* Marks a query parameter or body field that the request does not carry. *)
Absent == "<absent>"

(***************************************************************************)
(* HTTP requests as axios sends them.  A path is a sequence of segments;   *)
(* a segment is a literal or an interpolated id.                           *)
(***************************************************************************)
Lit(s) == [lit |-> s, id |-> 0]

Var(i) == [lit |-> "{}", id |-> i]

(***************************************************************************)
(* JSON values, all of one shape: kind is "object", "array", "number",      *)
(* "string", "true", "false" or "null" ("undefined" where there is none);  *)
(* an object has members, a sequence of [key, value] in insertion order    *)
(* with distinct keys; an array has items; a number is num, a string str.  *)
(***************************************************************************)
Json(kind) == [kind |-> kind, num |-> 0, str |-> <<>>, items |-> <<>>, members |-> <<>>]

JsonNumber(n) == [Json("number") EXCEPT !.num = n]

JsonString(chars) == [Json("string") EXCEPT !.str = chars]

JsonArray(items) == [Json("array") EXCEPT !.items = items]

JsonObject(members) == [Json("object") EXCEPT !.members = members]

Undefined == Json("undefined")

NoParams == [skip |-> -1, limit |-> -1, status |-> Absent, metric_name |-> Absent]

NoFile == [filename |-> Absent, payload |-> <<>>]

NoBody == [name |-> <<>>, hyperparameters |-> Undefined, tags |-> <<>>,
           hasExperiment |-> FALSE, hasTags |-> FALSE, status |-> Absent,
           metrics |-> <<>>, hasMetrics |-> FALSE, file |-> NoFile]

Request(method, path, params, body) ==
    [method |-> method, path |-> path, params |-> params, body |-> body]

(***************************************************************************)
(* The API client, frontend/lib/api.ts.  Each function is modelled by the  *)
(* one request it sends; its result is the response's data.                *)
(***************************************************************************)
PageSize == 20

(* A list request whose offset is one page too far. *)
getExperiments_SkipsPage(pageNo, status) ==
    Request("GET", <<Lit("experiments")>>,
            [NoParams EXCEPT !.skip = pageNo * PageSize,
                             !.limit = PageSize,
                             !.status = IF status # "" /\ status # "all"
                                        THEN status ELSE Absent],
            NoBody)

(* A list request that sends the status whenever one is set, 'all' included. *)
getExperiments_SendsAll(pageNo, status) ==
    Request("GET", <<Lit("experiments")>>,
            [NoParams EXCEPT !.skip = (pageNo - 1) * PageSize,
                             !.limit = PageSize,
                             !.status = IF status # "" THEN status ELSE Absent],
            NoBody)

getExperiments(pageNo, status) ==
    Request("GET", <<Lit("experiments")>>,
            [NoParams EXCEPT !.skip = (pageNo - 1) * PageSize,
                             !.limit = PageSize,
                             !.status = IF status # "" /\ status # "all"
                                        THEN status ELSE Absent],
            NoBody)

getExperiment(id) ==
    Request("GET", <<Lit("experiments"), Var(id)>>, NoParams, NoBody)

(* A create that posts the name and tags but leaves out the hyperparameters. *)
createExperiment_NoHyperparameters(data) ==
    Request("POST", <<Lit("experiments")>>, NoParams,
            [NoBody EXCEPT !.name = data.name,
                           !.tags = data.tags,
                           !.hasTags = TRUE,
                           !.hasExperiment = TRUE])

createExperiment(data) ==
    Request("POST", <<Lit("experiments")>>, NoParams,
            [NoBody EXCEPT !.name = data.name,
                           !.hyperparameters = data.hyperparameters,
                           !.tags = data.tags,
                           !.hasTags = TRUE,
                           !.hasExperiment = TRUE])

(* A status update that is put to the tags resource. *)
updateExperimentStatus_TagsPath(id, status) ==
    Request("PUT", <<Lit("experiments"), Var(id), Lit("tags")>>, NoParams,
            [NoBody EXCEPT !.status = status])

(* A status update that puts the bare string instead of the object {status}. *)
updateExperimentStatus_BareString(id, status) ==
    Request("PUT", <<Lit("experiments"), Var(id), Lit("status")>>, NoParams, NoBody)

updateExperimentStatus(id, status) ==
    Request("PUT", <<Lit("experiments"), Var(id), Lit("status")>>, NoParams,
            [NoBody EXCEPT !.status = status])

(* A tag update that is put to the status resource. *)
updateExperimentTags_StatusPath(id, tags) ==
    Request("PUT", <<Lit("experiments"), Var(id), Lit("status")>>, NoParams,
            [NoBody EXCEPT !.tags = tags, !.hasTags = TRUE])

updateExperimentTags(id, tags) ==
    Request("PUT", <<Lit("experiments"), Var(id), Lit("tags")>>, NoParams,
            [NoBody EXCEPT !.tags = tags, !.hasTags = TRUE])

(* A delete that addresses the artifact resource instead of the experiment. *)
deleteExperiment_ArtifactPath(id) ==
    Request("DELETE", <<Lit("artifacts"), Var(id)>>, NoParams, NoBody)

deleteExperiment(id) ==
    Request("DELETE", <<Lit("experiments"), Var(id)>>, NoParams, NoBody)

getMetrics(experimentId, metricName) ==
    Request("GET", <<Lit("experiments"), Var(experimentId), Lit("metrics")>>,
            [NoParams EXCEPT !.metric_name = IF metricName # ""
                                             THEN metricName ELSE Absent],
            NoBody)

(* A summary request that leaves "/summary" off the path. *)
getMetricsSummary_MetricsPath(experimentId) ==
    Request("GET", <<Lit("experiments"), Var(experimentId), Lit("metrics")>>,
            NoParams, NoBody)

getMetricsSummary(experimentId) ==
    Request("GET",
            <<Lit("experiments"), Var(experimentId), Lit("metrics"), Lit("summary")>>,
            NoParams, NoBody)

(* A log call that posts only the first point of its sequence. *)
logMetrics_FirstPointOnly(experimentId, points) ==
    Request("POST", <<Lit("experiments"), Var(experimentId), Lit("metrics")>>,
            NoParams,
            [NoBody EXCEPT !.metrics = SubSeq(points, 1, 1), !.hasMetrics = TRUE])

(* A log call that posts the array itself instead of the object {metrics}. *)
logMetrics_BareArray(experimentId, points) ==
    Request("POST", <<Lit("experiments"), Var(experimentId), Lit("metrics")>>,
            NoParams,
            [NoBody EXCEPT !.metrics = points])

logMetrics(experimentId, points) ==
    Request("POST", <<Lit("experiments"), Var(experimentId), Lit("metrics")>>,
            NoParams,
            [NoBody EXCEPT !.metrics = points, !.hasMetrics = TRUE])

getArtifacts(experimentId) ==
    Request("GET", <<Lit("artifacts"), Lit("experiments"), Var(experimentId)>>,
            NoParams, NoBody)

downloadArtifact(artifactId) ==
    Request("GET", <<Lit("artifacts"), Var(artifactId), Lit("download")>>,
            NoParams, NoBody)

uploadArtifact(experimentId, file) ==
    Request("POST",
            <<Lit("artifacts"), Lit("experiments"), Var(experimentId), Lit("upload")>>,
            NoParams,
            [NoBody EXCEPT !.file = file])

(* An artifact delete that addresses the experiment resource. *)
deleteArtifact_ExperimentPath(artifactId) ==
    Request("DELETE", <<Lit("experiments"), Var(artifactId)>>, NoParams, NoBody)

deleteArtifact(artifactId) ==
    Request("DELETE", <<Lit("artifacts"), Var(artifactId)>>, NoParams, NoBody)

(***************************************************************************)
(* The backend (FastAPI + PostgreSQL, not among the sources), written from *)
(* the design document: sections 3, 4.1-4.3, 6 and 7.  A world w is the    *)
(* content of the three stores and their id counters; every handler maps   *)
(* a world and a request to the new world and the response.  Row           *)
(* timestamps (created_at, timestamp, uploaded_at) are a logical clock:    *)
(* the row's own serial number.                                            *)
(***************************************************************************)
NoExperiment == [id |-> 0, name |-> <<>>, status |-> Absent,
                 hyperparameters |-> Undefined, tags |-> <<>>, created_at |-> 0]

NoArtifact == [id |-> 0, experiment_id |-> 0, filename |-> Absent,
               size_bytes |-> 0, uploaded_at |-> 0]

Response(code) ==
    [code |-> code, experiment |-> NoExperiment, list |-> <<>>,
     artifact |-> NoArtifact, payload |-> <<>>]

World == [experiments |-> experiments, metrics |-> metrics,
          artifacts |-> artifacts, nextExperimentId |-> nextExperimentId,
          nextMetricId |-> nextMetricId, nextArtifactId |-> nextArtifactId]

Reply(w, resp) == [world |-> w, resp |-> resp]

ExperimentIds(w) == {e.id : e \in Range(w.experiments)}

ExperimentRow(w, id) == CHOOSE e \in Range(w.experiments) : e.id = id

ArtifactIds(w) == {a.id : a \in Range(w.artifacts)}

ArtifactRow(w, id) == CHOOSE a \in Range(w.artifacts) : a.id = id

ArtifactMeta(a) == [id |-> a.id, experiment_id |-> a.experiment_id,
                    filename |-> a.filename, size_bytes |-> a.size_bytes,
                    uploaded_at |-> a.uploaded_at]

MapSeq(s, F(_)) == [i \in DOMAIN s |-> F(s[i])]

(* A create that does not advance the id sequence. *)
HandleCreate_SameId(w, req) ==
    IF ~req.body.hasExperiment \/ req.body.hyperparameters.kind # "object"
    THEN Reply(w, Response(422))
    ELSE LET row == [id |-> w.nextExperimentId,
                     name |-> req.body.name,
                     status |-> "running",
                     hyperparameters |-> req.body.hyperparameters,
                     tags |-> IF req.body.hasTags THEN req.body.tags ELSE <<>>,
                     created_at |-> w.nextExperimentId]
         IN Reply([w EXCEPT !.experiments = Append(@, row)],
                  [Response(200) EXCEPT !.experiment = row])

(* POST /experiments {name, hyperparameters, tags?} -> Experiment *)
HandleCreate(w, req) ==
    IF ~req.body.hasExperiment \/ req.body.hyperparameters.kind # "object"
    THEN Reply(w, Response(422))
    ELSE LET row == [id |-> w.nextExperimentId,
                     name |-> req.body.name,
                     status |-> "running",
                     hyperparameters |-> req.body.hyperparameters,
                     tags |-> IF req.body.hasTags THEN req.body.tags ELSE <<>>,
                     created_at |-> w.nextExperimentId]
         IN Reply([w EXCEPT !.experiments = Append(@, row),
                            !.nextExperimentId = @ + 1],
                  [Response(200) EXCEPT !.experiment = row])

(* GET /experiments?skip=&limit=&status= -> list *)
HandleList(w, req) ==
    LET wanted(e) == req.params.status = Absent \/ e.status = req.params.status
        rows  == SelectSeq(w.experiments, wanted)
        skip  == Max2(req.params.skip, 0)
        limit == IF req.params.limit < 0 THEN Len(rows) ELSE req.params.limit
    IN Reply(w, [Response(200) EXCEPT
                   !.list = SubSeq(rows, skip + 1, Min2(skip + limit, Len(rows)))])

(* GET /experiments/{id} -> Experiment or NotFound *)
HandleGet(w, id) ==
    IF id \notin ExperimentIds(w)
    THEN Reply(w, Response(404))
    ELSE Reply(w, [Response(200) EXCEPT !.experiment = ExperimentRow(w, id)])

(* PUT /experiments/{id}/status {status} -> Experiment, NotFound or ValidationError *)
HandleUpdateStatus(w, id, req) ==
    IF req.body.status \notin Statuses
    THEN Reply(w, Response(422))
    ELSE IF id \notin ExperimentIds(w)
    THEN Reply(w, Response(404))
    ELSE LET upd(e) == IF e.id = id THEN [e EXCEPT !.status = req.body.status] ELSE e
             w2 == [w EXCEPT !.experiments = MapSeq(@, upd)]
         IN Reply(w2, [Response(200) EXCEPT !.experiment = ExperimentRow(w2, id)])

(* PUT /experiments/{id}/tags {tags} -> Experiment or NotFound *)
HandleUpdateTags(w, id, req) ==
    IF ~req.body.hasTags
    THEN Reply(w, Response(422))
    ELSE IF id \notin ExperimentIds(w)
    THEN Reply(w, Response(404))
    ELSE LET upd(e) == IF e.id = id THEN [e EXCEPT !.tags = req.body.tags] ELSE e
             w2 == [w EXCEPT !.experiments = MapSeq(@, upd)]
         IN Reply(w2, [Response(200) EXCEPT !.experiment = ExperimentRow(w2, id)])

(* A delete that removes the experiment row only. *)
HandleDelete_NoCascade(w, id) ==
    IF id \notin ExperimentIds(w)
    THEN Reply(w, Response(404))
    ELSE LET keepE(e) == e.id # id
         IN Reply([w EXCEPT !.experiments = SelectSeq(@, keepE)], Response(204))

(* DELETE /experiments/{id} -> 204 or NotFound; cascades to metrics and artifacts *)
HandleDelete(w, id) ==
    IF id \notin ExperimentIds(w)
    THEN Reply(w, Response(404))
    ELSE LET keepE(e) == e.id # id
             keepO(r) == r.experiment_id # id
         IN Reply([w EXCEPT !.experiments = SelectSeq(@, keepE),
                            !.metrics = SelectSeq(@, keepO),
                            !.artifacts = SelectSeq(@, keepO)],
                  Response(204))

(* GET /experiments/{id}/metrics?metric_name= -> list of Metric *)
HandleListMetrics(w, id, req) ==
    LET wanted(m) == /\ m.experiment_id = id
                     /\ \/ req.params.metric_name = Absent
                        \/ m.metric_name = req.params.metric_name
    IN Reply(w, [Response(200) EXCEPT !.list = SelectSeq(w.metrics, wanted)])

(* One pass over the points of an experiment, in insertion order, keeping per
   metric_name the running min, max, sum, count and the value at the highest
   step seen so far; a later point at the same step replaces the value. *)
SummaryAdd(acc, m) ==
    IF \E i \in DOMAIN acc : acc[i].metric_name = m.metric_name
    THEN [i \in DOMAIN acc |->
            IF acc[i].metric_name # m.metric_name THEN acc[i]
            ELSE [acc[i] EXCEPT
                    !.min = Min2(@, m.value),
                    !.max = Max2(@, m.value),
                    !.sum = @ + m.value,
                    !.count = @ + 1,
                    !.latest = IF m.step >= acc[i].latestStep THEN m.value ELSE @,
                    !.latestStep = Max2(@, m.step)]]
    ELSE Append(acc, [metric_name |-> m.metric_name, min |-> m.value,
                      max |-> m.value, sum |-> m.value, count |-> 1,
                      latest |-> m.value, latestStep |-> m.step])

RECURSIVE SummaryFold(_, _)
SummaryFold(acc, points) ==
    IF points = <<>> THEN acc
    ELSE SummaryFold(SummaryAdd(acc, Head(points)), Tail(points))

SummaryRow(a) == [metric_name |-> a.metric_name, min |-> a.min, max |-> a.max,
                  avg |-> [num |-> a.sum, den |-> a.count], latest |-> a.latest]

(* GET /experiments/{id}/metrics/summary -> list of MetricsSummary *)
HandleSummary(w, id) ==
    LET mine(m) == m.experiment_id = id
    IN Reply(w, [Response(200) EXCEPT
                   !.list = MapSeq(SummaryFold(<<>>, SelectSeq(w.metrics, mine)),
                                   SummaryRow)])

(* POST /experiments/{id}/metrics {metrics:[...]} -> 202; fails if id unknown *)
HandleLog(w, id, req) ==
    IF ~req.body.hasMetrics
    THEN Reply(w, Response(422))
    ELSE IF id \notin ExperimentIds(w)
    THEN Reply(w, Response(404))
    ELSE LET pts == req.body.metrics
             rows == [i \in DOMAIN pts |->
                        [id |-> w.nextMetricId + i - 1,
                         experiment_id |-> id,
                         step |-> pts[i].step,
                         metric_name |-> pts[i].metric_name,
                         value |-> pts[i].value,
                         timestamp |-> w.nextMetricId + i - 1]]
         IN Reply([w EXCEPT !.metrics = @ \o rows,
                            !.nextMetricId = @ + Len(pts)],
                  Response(202))

(* GET /artifacts/experiments/{id} -> list of Artifact *)
HandleListArtifacts(w, id) ==
    LET mine(a) == a.experiment_id = id
    IN Reply(w, [Response(200) EXCEPT
                   !.list = MapSeq(SelectSeq(w.artifacts, mine), ArtifactMeta)])

(* An upload that stores the file without looking the experiment up. *)
HandleUpload_NoLookup(w, id, req) ==
    LET row == [id |-> w.nextArtifactId,
                experiment_id |-> id,
                filename |-> req.body.file.filename,
                size_bytes |-> Len(req.body.file.payload),
                uploaded_at |-> w.nextArtifactId,
                payload |-> req.body.file.payload]
    IN Reply([w EXCEPT !.artifacts = Append(@, row),
                       !.nextArtifactId = @ + 1],
             [Response(200) EXCEPT !.artifact = ArtifactMeta(row)])

(* POST /artifacts/experiments/{id}/upload (multipart file) -> Artifact *)
HandleUpload(w, id, req) ==
    IF req.body.file.filename = Absent
    THEN Reply(w, Response(422))
    ELSE IF id \notin ExperimentIds(w)
    THEN Reply(w, Response(404))
    ELSE LET row == [id |-> w.nextArtifactId,
                     experiment_id |-> id,
                     filename |-> req.body.file.filename,
                     size_bytes |-> Len(req.body.file.payload),
                     uploaded_at |-> w.nextArtifactId,
                     payload |-> req.body.file.payload]
         IN Reply([w EXCEPT !.artifacts = Append(@, row),
                            !.nextArtifactId = @ + 1],
                  [Response(200) EXCEPT !.artifact = ArtifactMeta(row)])

(* GET /artifacts/{id}/download -> binary stream or NotFound *)
HandleDownload(w, id) ==
    IF id \notin ArtifactIds(w)
    THEN Reply(w, Response(404))
    ELSE Reply(w, [Response(200) EXCEPT !.payload = ArtifactRow(w, id).payload])

(* DELETE /artifacts/{id} -> 204 or NotFound *)
HandleDeleteArtifact(w, id) ==
    IF id \notin ArtifactIds(w)
    THEN Reply(w, Response(404))
    ELSE LET keep(a) == a.id # id
         IN Reply([w EXCEPT !.artifacts = SelectSeq(@, keep)], Response(204))

(***************************************************************************)
(* The REST resource surface (section 6): which handler a request reaches. *)
(* A request that matches no route is answered 404 and changes nothing.    *)
(***************************************************************************)
Shape(path) == [i \in DOMAIN path |-> path[i].lit]

Handle(w, req) ==
    LET m == req.method
        p == Shape(req.path)
    IN  CASE m = "GET"    /\ p = <<"experiments">>                    -> HandleList(w, req)
          [] m = "POST"   /\ p = <<"experiments">>                    -> HandleCreate(w, req)
          [] m = "GET"    /\ p = <<"experiments", "{}">>              -> HandleGet(w, req.path[2].id)
          [] m = "PUT"    /\ p = <<"experiments", "{}", "status">>    -> HandleUpdateStatus(w, req.path[2].id, req)
          [] m = "PUT"    /\ p = <<"experiments", "{}", "tags">>      -> HandleUpdateTags(w, req.path[2].id, req)
          [] m = "DELETE" /\ p = <<"experiments", "{}">>              -> HandleDelete(w, req.path[2].id)
          [] m = "GET"    /\ p = <<"experiments", "{}", "metrics">>   -> HandleListMetrics(w, req.path[2].id, req)
          [] m = "GET"    /\ p = <<"experiments", "{}", "metrics", "summary">>
                                                                      -> HandleSummary(w, req.path[2].id)
          [] m = "POST"   /\ p = <<"experiments", "{}", "metrics">>   -> HandleLog(w, req.path[2].id, req)
          [] m = "GET"    /\ p = <<"artifacts", "experiments", "{}">> -> HandleListArtifacts(w, req.path[3].id)
          [] m = "POST"   /\ p = <<"artifacts", "experiments", "{}", "upload">>
                                                                      -> HandleUpload(w, req.path[3].id, req)
          [] m = "GET"    /\ p = <<"artifacts", "{}", "download">>    -> HandleDownload(w, req.path[2].id)
          [] m = "DELETE" /\ p = <<"artifacts", "{}">>                -> HandleDeleteArtifact(w, req.path[2].id)
          [] OTHER                                                    -> Reply(w, Response(404))

(***************************************************************************)
(* Calls of the API client.  A call names the client function and its      *)
(* arguments; RequestOf is the request that function sends for it.         *)
(* raced records, when the call is sent, that another call of the same     *)
(* function on the same id, with another value, was in flight.             *)
(***************************************************************************)
NoCall == [fn |-> "none", id |-> 0, name |-> <<>>, hyperparameters |-> Undefined,
           tags |-> <<>>, status |-> Absent, points |-> <<>>, file |-> NoFile,
           raced |-> FALSE]

CallCreate(data) ==
    [NoCall EXCEPT !.fn = "createExperiment", !.name = data.name,
                   !.hyperparameters = data.hyperparameters, !.tags = data.tags]

CallUpdateStatus(id, status) ==
    [NoCall EXCEPT !.fn = "updateExperimentStatus", !.id = id, !.status = status]

CallUpdateTags(id, tags) ==
    [NoCall EXCEPT !.fn = "updateExperimentTags", !.id = id, !.tags = tags]

CallDelete(id) == [NoCall EXCEPT !.fn = "deleteExperiment", !.id = id]

CallLog(id, points) ==
    [NoCall EXCEPT !.fn = "logMetrics", !.id = id, !.points = points]

CallUpload(id, file) ==
    [NoCall EXCEPT !.fn = "uploadArtifact", !.id = id, !.file = file]

CallDeleteArtifact(id) == [NoCall EXCEPT !.fn = "deleteArtifact", !.id = id]

CallDownload(id) == [NoCall EXCEPT !.fn = "downloadArtifact", !.id = id]

RequestOf(c) ==
    CASE c.fn = "createExperiment" ->
             createExperiment([name |-> c.name,
                               hyperparameters |-> c.hyperparameters,
                               tags |-> c.tags])
      [] c.fn = "updateExperimentStatus" -> updateExperimentStatus(c.id, c.status)
      [] c.fn = "updateExperimentTags"   -> updateExperimentTags(c.id, c.tags)
      [] c.fn = "deleteExperiment"       -> deleteExperiment(c.id)
      [] c.fn = "logMetrics"             -> logMetrics(c.id, c.points)
      [] c.fn = "uploadArtifact"         -> uploadArtifact(c.id, c.file)
      [] c.fn = "deleteArtifact"         -> deleteArtifact(c.id)
      [] c.fn = "downloadArtifact"       -> downloadArtifact(c.id)

(* How many calls of function fn are in flight. *)
RECURSIVE InFlightOf(_, _)
InFlightOf(fn, S) ==
    IF S = {} THEN 0
    ELSE LET c == CHOOSE x \in S : TRUE
         IN (IF c.fn = fn THEN CopiesIn(c, net) ELSE 0) + InFlightOf(fn, S \ {c})

(* The model stops issuing calls that would take a serial number past
   MaxCreates, MaxMetrics or MaxArtifacts. *)
WithinBounds(c) ==
    /\ c.fn = "createExperiment" =>
          nextExperimentId + InFlightOf("createExperiment", BagToSet(net)) <= MaxCreates
    /\ c.fn = "logMetrics" => nextMetricId + Len(c.points) - 1 <= MaxMetrics
    /\ c.fn = "uploadArtifact" => nextArtifactId <= MaxArtifacts

(* The status an experiment has in the store ("<absent>" if it is not there). *)
StatusOf(id) ==
    IF id \in ExperimentIds(World) THEN ExperimentRow(World, id).status ELSE Absent

(* How many metric and artifact rows an experiment owns in the store. *)
NoneOwned == [metrics |-> 0, artifacts |-> 0]

Owned(id) ==
    [metrics   |-> Cardinality({i \in DOMAIN metrics : metrics[i].experiment_id = id}),
     artifacts |-> Cardinality({i \in DOMAIN artifacts : artifacts[i].experiment_id = id})]

(***************************************************************************)
(* The backend handles call c: one store operation, applied atomically,    *)
(* and the response.  last and createdAs observe it: last also keeps the   *)
(* status a status update found (from) and the rows a delete found (had).  *)
(***************************************************************************)
Apply(c) ==
    LET r == Handle(World, RequestOf(c))
    IN  /\ experiments' = r.world.experiments
        /\ metrics' = r.world.metrics
        /\ artifacts' = r.world.artifacts
        /\ nextExperimentId' = r.world.nextExperimentId
        /\ nextMetricId' = r.world.nextMetricId
        /\ nextArtifactId' = r.world.nextArtifactId
        /\ last' = [call |-> c, resp |-> r.resp,
                    from |-> IF c.fn = "updateExperimentStatus"
                             THEN StatusOf(c.id) ELSE Absent,
                    had  |-> IF c.fn = "deleteExperiment"
                             THEN Owned(c.id) ELSE NoneOwned]
        /\ createdAs' = IF c.fn = "createExperiment" /\ r.resp.code = 200
                        THEN createdAs @@
                             (r.resp.experiment.id :>
                                [name |-> c.name,
                                 hyperparameters |-> c.hyperparameters])
                        ELSE createdAs

(* A caller that awaits its call: request, handling and response in one step. *)
Await(c) ==
    /\ net = EmptyBag
    /\ WithinBounds(c)
    /\ Apply(c)
    /\ UNCHANGED <<net, dashVars, uiVars>>

(* A caller sends a call while others may be in flight. *)
Send(c) ==
    /\ BagCardinality(net) < MaxInFlight
    /\ WithinBounds(c)
    /\ net' = net (+) SetToBag({[c EXCEPT !.raced =
                  \E d \in BagToSet(net) :
                      /\ d.fn = c.fn
                      /\ d.id = c.id
                      /\ (d.status # c.status \/ d.tags # c.tags)]})
    /\ UNCHANGED <<storeVars, last, createdAs, dashVars, uiVars>>

(* The backend handles one of the calls in flight, in any order. *)
Serve(c) ==
    /\ BagIn(c, net)
    /\ Apply(c)
    /\ net' = net (-) SetToBag({c})
    /\ UNCHANGED <<dashVars, uiVars>>

(* What a read of the API returns in the current state. *)
Fetch(req) == Handle(World, req).resp

(***************************************************************************)
(* Initial state: empty stores, nothing in flight, dashboard not loaded.   *)
(***************************************************************************)
NotLoaded == [loaded |-> FALSE, data |-> <<>>, failed |-> FALSE, failureCount |-> 0]

(* The state of the pages' forms and mutations when the pages are opened:
   useState('') for the name and the error, useState('{}') for the
   hyperparameters text, every mutation idle, nothing requested. *)
MutationNames == {"create", "tableStatus", "tableDelete", "detailStatus", "detailTags"}

Idle == [status |-> "idle", call |-> NoCall, inv |-> 0, failureCount |-> 0]

NotOpen == [id |-> 0, loaded |-> FALSE, invalidated |-> FALSE,
            experiment |-> NoExperiment, artifacts |-> <<>>]

InitPages ==
    /\ form = [name |-> <<>>, hyperparameters |-> <<"{", "}">>, tags |-> <<>>,
               newTag |-> <<>>, error |-> ""]
    /\ mutations = [m \in MutationNames |-> Idle]
    /\ detail = NotOpen
    /\ download = Idle
    /\ sent = <<>>
    /\ invoked = 0
    /\ lastEvent = [handler |-> "none", tick |-> 0]

Init ==
    /\ experiments = <<>>
    /\ metrics = <<>>
    /\ artifacts = <<>>
    /\ nextExperimentId = 1
    /\ nextMetricId = 1
    /\ nextArtifactId = 1
    /\ net = EmptyBag
    /\ last = [call |-> NoCall, resp |-> Response(0), from |-> Absent,
               had |-> NoneOwned]
    /\ createdAs = <<>>
    /\ fetched = NotLoaded
    /\ searchQuery = <<>>
    /\ page = 1
    /\ statusFilter = "all"
    /\ sortBy = "date"
    /\ sortOrder = "desc"
    /\ InitPages

(***************************************************************************)
(* Inputs.                                                                 *)
(***************************************************************************)
NameTest == <<"T", "e", "s", "t">>

NameRun == <<"r", "u", "n">>

TagA == <<"a">>

TagB == <<"b">>

HpLr == JsonObject(<<[key |-> <<"l", "r">>, value |-> JsonNumber(1)]>>)

HpNone == JsonObject(<<>>)

IdInputs == 1 .. MaxCreates

CreateInputs ==
    {[name |-> NameTest, hyperparameters |-> HpLr, tags |-> <<>>],
     [name |-> NameRun, hyperparameters |-> HpNone, tags |-> <<TagB>>]}

StatusInputs == SelectItems \cup {"paused"}

TagListInputs == {<<TagA>>, <<TagB>>}

(***************************************************************************)
(* SpecRegistry: the experiment registry used by one caller at a time.     *)
(***************************************************************************)
NextRegistry ==
    \/ \E d \in CreateInputs : Await(CallCreate(d))
    \/ \E id \in IdInputs, st \in StatusInputs : Await(CallUpdateStatus(id, st))
    \/ \E id \in IdInputs : Await(CallUpdateTags(id, <<TagA>>))
    \/ \E id \in IdInputs : Await(CallDelete(id))

SpecRegistry == Init /\ [][NextRegistry]_vars

(* C1: round trip of create and get.  For every id a create has returned, as
   long as the experiment is still in the store, get(id) answers 200 with that
   id and with the name and the hyperparameters the create was given; and the
   create's own response carries them too. *)
C1_CreateGetRoundTrip ==
    /\ \A i \in DOMAIN createdAs :
          i \in ExperimentIds(World) =>
             LET r == Fetch(getExperiment(i))
             IN  /\ r.code = 200
                 /\ r.experiment.id = i
                 /\ r.experiment.name = createdAs[i].name
                 /\ r.experiment.hyperparameters = createdAs[i].hyperparameters
    /\ last.call.fn = "createExperiment" =>
          /\ last.resp.code = 200
          /\ last.resp.experiment.name = last.call.name
          /\ last.resp.experiment.hyperparameters = last.call.hyperparameters

(* C1 witness: "Test" with {lr} was created, status and tags were updated in
   between, and get still returns the created name and hyperparameters. *)
C1_Witness ==
    \E i \in DOMAIN createdAs :
        /\ createdAs[i] = [name |-> NameTest, hyperparameters |-> HpLr]
        /\ Fetch(getExperiment(i)).code = 200
        /\ Fetch(getExperiment(i)).experiment.name = NameTest
        /\ Fetch(getExperiment(i)).experiment.status = "completed"
        /\ Fetch(getExperiment(i)).experiment.tags = <<TagA>>

(* C6: update_status validation.  A handled update_status whose value is not
   one of the three is answered 422 and changes no store; one with a valid
   value on an existing experiment is answered 200 whatever the status was,
   and sets exactly that experiment's status. *)
C6_StatusUpdate ==
    [][ last'.call.fn = "updateExperimentStatus" =>
          LET c == last'.call
          IN  IF c.status \notin Statuses
              THEN last'.resp.code = 422 /\ UNCHANGED storeVars
              ELSE IF c.id \in ExperimentIds(World)
              THEN /\ last'.resp.code = 200
                   /\ last'.resp.experiment.status = c.status
                   /\ experiments' =
                        [i \in DOMAIN experiments |->
                           IF experiments[i].id = c.id
                           THEN [experiments[i] EXCEPT !.status = c.status]
                           ELSE experiments[i]]
              ELSE last'.resp.code = 404 /\ UNCHANGED storeVars
      ]_vars

(* C6 witness: a backward transition, failed -> running, has succeeded. *)
C6_Witness ==
    /\ last.call.fn = "updateExperimentStatus"
    /\ last.from = "failed"
    /\ last.call.status = "running"
    /\ last.resp.code = 200
    /\ StatusOf(last.call.id) = "running"

(***************************************************************************)
(* SpecData: metrics and artifacts of experiments, one caller at a time.   *)
(***************************************************************************)
Point(step, name, value) == [step |-> step, metric_name |-> name, value |-> value]

LogInputs ==
    {<<Point(1, "loss", 5), Point(2, "loss", 3)>>,
     <<Point(2, "loss", 5)>>,
     <<Point(1, "loss", 7), Point(3, "acc", 1)>>}

FileInputs == {[filename |-> "model.pkl", payload |-> <<1, 2>>]}

ArtifactIdInputs == 1 .. MaxArtifacts

NextData ==
    \/ Await(CallCreate([name |-> NameTest, hyperparameters |-> HpLr, tags |-> <<>>]))
    \/ \E id \in IdInputs, pts \in LogInputs : Await(CallLog(id, pts))
    \/ \E id \in IdInputs, f \in FileInputs : Await(CallUpload(id, f))
    \/ \E a \in ArtifactIdInputs : Await(CallDeleteArtifact(a))
    \/ \E id \in IdInputs : Await(CallDelete(id))

SpecData == Init /\ [][NextData]_vars

(* What list(experiment_id) of the metric store and of the artifact store return. *)
ListedMetrics(id) == Fetch(getMetrics(id, "")).list

ListedArtifacts(id) == Fetch(getArtifacts(id)).list

(* C2: cascading delete.  Right after a delete of an experiment succeeded, and
   for every created experiment that is no longer in the store, listing its
   metrics and listing its artifacts both return the empty sequence. *)
C2_CascadingDelete ==
    /\ (last.call.fn = "deleteExperiment" /\ last.resp.code = 204) =>
          /\ ListedMetrics(last.call.id) = <<>>
          /\ ListedArtifacts(last.call.id) = <<>>
    /\ \A i \in DOMAIN createdAs :
          i \notin ExperimentIds(World) =>
             ListedMetrics(i) = <<>> /\ ListedArtifacts(i) = <<>>

(* C2 witness: the delete just handled removed an experiment that owned
   metrics and an artifact, while another experiment keeps its own. *)
C2_Witness ==
    /\ last.call.fn = "deleteExperiment"
    /\ last.resp.code = 204
    /\ last.had.metrics >= 2
    /\ last.had.artifacts >= 1
    /\ ListedMetrics(last.call.id) = <<>>
    /\ ListedArtifacts(last.call.id) = <<>>
    /\ metrics # <<>>

(* C3: referential integrity.  In every reachable state every stored metric
   and every stored artifact has the id of an experiment in the store. *)
C3_ReferentialIntegrity ==
    /\ \A i \in DOMAIN metrics : metrics[i].experiment_id \in ExperimentIds(World)
    /\ \A i \in DOMAIN artifacts : artifacts[i].experiment_id \in ExperimentIds(World)

(* C3 witness: an experiment that owned rows was deleted and the stores still
   hold metrics and artifacts, all of them of the experiment that is left. *)
C3_Witness ==
    /\ \E i \in DOMAIN createdAs : i \notin ExperimentIds(World)
    /\ metrics # <<>>
    /\ artifacts # <<>>
    /\ last.call.fn = "deleteExperiment"
    /\ last.had.metrics >= 1
    /\ last.had.artifacts >= 1

(* C4: a handled log or upload whose experiment id is not in the store fails
   (upload with 404 NotFound, log with an error status) and leaves the metric
   store and the artifact store as they were. *)
C4_UnknownExperimentRejected ==
    [][ (/\ last'.call.fn \in {"logMetrics", "uploadArtifact"}
         /\ last'.call.id \notin ExperimentIds(World))
        => /\ last'.resp.code >= 400
           /\ last'.call.fn = "uploadArtifact" => last'.resp.code = 404
           /\ UNCHANGED <<metrics, artifacts>>
      ]_vars

(* C4 witness: an upload to an id that is not in the store was answered 404
   while the stores held rows of another experiment. *)
C4_Witness ==
    /\ last.call.fn = "uploadArtifact"
    /\ last.call.id \notin ExperimentIds(World)
    /\ last.resp.code = 404
    /\ metrics # <<>>
    /\ artifacts # <<>>

(* The points of one metric_name among pts, in the order of pts. *)
NamedPoints(pts, n) ==
    LET named(m) == m.metric_name = n IN SelectSeq(pts, named)

(* row is the aggregate of the non-empty sequence ps of points, stated without
   reference to how it is computed: min and max are attained and bound every
   value, avg is the mean as a fraction, and latest is the value of the point
   with the highest step, the last one in ps among those with that step. *)
IsAggregateOf(row, ps) ==
    /\ \E k \in DOMAIN ps : row.min = ps[k].value
    /\ \A k \in DOMAIN ps : row.min <= ps[k].value
    /\ \E k \in DOMAIN ps : row.max = ps[k].value
    /\ \A k \in DOMAIN ps : row.max >= ps[k].value
    /\ row.avg.den > 0
    /\ row.avg.num * Len(ps) = SeqSum([k \in DOMAIN ps |-> ps[k].value]) * row.avg.den
    /\ \E k \in DOMAIN ps :
          /\ row.latest = ps[k].value
          /\ \A j \in DOMAIN ps : ps[j].step <= ps[k].step
          /\ \A j \in DOMAIN ps : j > k => ps[j].step < ps[k].step

(* C5: summarize(experiment_id) returns exactly one aggregate per metric_name
   logged for the experiment, with min, max and avg the minimum, maximum and
   mean of that name's values and latest the value at the highest step, the
   last logged point winning a tie. *)
C5_SummaryAggregates ==
    \A id \in IdInputs :
        LET pts == ListedMetrics(id)
            sm  == Fetch(getMetricsSummary(id)).list
        IN  /\ \A i \in DOMAIN sm :
                  DOMAIN sm[i] = {"metric_name", "min", "max", "avg", "latest"}
            /\ {sm[i].metric_name : i \in DOMAIN sm}
                  = {pts[j].metric_name : j \in DOMAIN pts}
            /\ Len(sm) = Cardinality({pts[j].metric_name : j \in DOMAIN pts})
            /\ \A i \in DOMAIN sm :
                  IsAggregateOf(sm[i], NamedPoints(pts, sm[i].metric_name))

(* C5 witness: loss was logged as 5 at step 1, 3 at step 2 and then 5 at
   step 2 again; the summary is min 3, max 5, avg 13/3 and latest 5. *)
C5_Witness ==
    \E id \in IdInputs :
        /\ [k \in DOMAIN ListedMetrics(id) |->
              <<ListedMetrics(id)[k].step, ListedMetrics(id)[k].value>>]
              = <<<<1, 5>>, <<2, 3>>, <<2, 5>>>>
        /\ \E i \in DOMAIN Fetch(getMetricsSummary(id)).list :
              Fetch(getMetricsSummary(id)).list[i]
                 = [metric_name |-> "loss", min |-> 3, max |-> 5,
                    avg |-> [num |-> 13, den |-> 3], latest |-> 5]

(* C7: the metric store is append-only.  In every step and for every
   experiment id: an accepted log call for id extends list(id) by its points,
   one row per element, in order, and keeps every earlier row as it was; a
   successful delete of experiment id empties list(id); any other step leaves
   list(id) as it was. *)
C7_AppendOnly ==
    [][ \A id \in IdInputs :
          LET before == ListedMetrics(id)
              after  == ListedMetrics(id)'
              c      == last'.call
          IN  IF c.fn = "logMetrics" /\ c.id = id /\ last'.resp.code = 202
              THEN /\ Len(after) = Len(before) + Len(c.points)
                   /\ IsPrefix(before, after)
                   /\ \A k \in DOMAIN c.points :
                         /\ after[Len(before) + k].step = c.points[k].step
                         /\ after[Len(before) + k].metric_name = c.points[k].metric_name
                         /\ after[Len(before) + k].value = c.points[k].value
              ELSE IF c.fn = "deleteExperiment" /\ c.id = id /\ last'.resp.code = 204
              THEN after = <<>>
              ELSE after = before
      ]_vars

(* C7 witness: after an accepted log, list(id) holds two points with the same
   metric_name and step and different values. *)
C7_Witness ==
    /\ last.call.fn = "logMetrics"
    /\ last.resp.code = 202
    /\ \E i, j \in DOMAIN ListedMetrics(last.call.id) :
          /\ i < j
          /\ ListedMetrics(last.call.id)[i].metric_name
                = ListedMetrics(last.call.id)[j].metric_name
          /\ ListedMetrics(last.call.id)[i].step = ListedMetrics(last.call.id)[j].step
          /\ ListedMetrics(last.call.id)[i].value # ListedMetrics(last.call.id)[j].value

(***************************************************************************)
(* SpecRace: status and tag updates of several callers in flight at once;  *)
(* the backend handles the calls in flight one at a time, in any order.    *)
(***************************************************************************)
RaceStatusInputs == {"completed", "failed"}

NextRace ==
    \/ Send(CallCreate([name |-> NameTest, hyperparameters |-> HpLr, tags |-> <<>>]))
    \/ \E st \in RaceStatusInputs : Send(CallUpdateStatus(nextExperimentId - 1, st))
    \/ \E t \in TagListInputs : Send(CallUpdateTags(nextExperimentId - 1, t))
    \/ \E c \in BagToSet(net) : Serve(c)

SpecRace == Init /\ [][NextRace]_vars

(* C9: last write wins.  Whatever else is or was in flight, the update the
   store applied last on an existing experiment succeeded, and the stored
   status (or tag list) is exactly the value that update carried. *)
C9_LastWriteWins ==
    LET c == last.call
    IN  /\ (c.fn = "updateExperimentStatus" /\ c.id \in ExperimentIds(World)) =>
              /\ last.resp.code = 200
              /\ StatusOf(c.id) = c.status
        /\ (c.fn = "updateExperimentTags" /\ c.id \in ExperimentIds(World)) =>
              /\ last.resp.code = 200
              /\ ExperimentRow(World, c.id).tags = c.tags

(* C9 witness: a tag update was sent while a tag update of the same
   experiment with the other list was in flight; both have been handled, this
   one last, and the stored list is this one's. *)
C9_Witness ==
    /\ last.call.fn = "updateExperimentTags"
    /\ last.call.raced
    /\ net = EmptyBag
    /\ last.resp.code = 200
    /\ ExperimentRow(World, last.call.id).tags = last.call.tags

(***************************************************************************)
(* The dashboard page, frontend/app/page.tsx (src/unnamed/part_004).       *)
(* fetched is the data of the list query for the current page and status   *)
(* filter: not loaded until the request has been answered, and not loaded  *)
(* again after the page or the filter, which are part of the query key,    *)
(* has changed.                                                            *)
(***************************************************************************)
Loaded(list) == [loaded |-> TRUE, data |-> list, failed |-> FALSE, failureCount |-> 0]

FullPage == 20

(* The list query's request is answered. *)
QueryDone ==
    /\ ~fetched.loaded
    /\ ~fetched.failed
    /\ fetched' = Loaded(Fetch(getExperiments(page, statusFilter)).list)
    /\ UNCHANGED <<storeVars, netVars, searchQuery, page, statusFilter, sortVars, uiVars>>

(* A Next button that is never disabled. *)
NextPage_NeverDisabled ==
    /\ fetched.loaded
    /\ page' = page + 1
    /\ fetched' = NotLoaded
    /\ UNCHANGED <<storeVars, netVars, searchQuery, statusFilter, sortVars, uiVars>>

(* The Next button: rendered once the list is there, disabled when the list
   holds fewer than 20 experiments. *)
NextPage ==
    /\ fetched.loaded
    /\ ~(Len(fetched.data) < FullPage)
    /\ page' = page + 1
    /\ fetched' = NotLoaded
    /\ UNCHANGED <<storeVars, netVars, searchQuery, statusFilter, sortVars, uiVars>>

(* The Previous button: disabled on page 1. *)
PreviousPage ==
    /\ fetched.loaded
    /\ page # 1
    /\ page' = Max2(1, page - 1)
    /\ fetched' = NotLoaded
    /\ UNCHANGED <<storeVars, netVars, searchQuery, statusFilter, sortVars, uiVars>>

(* A status select that also goes back to page 1. *)
setStatusFilter_FirstPage(value) ==
    /\ statusFilter' = value
    /\ page' = 1
    /\ fetched' = IF value = statusFilter /\ page = 1 THEN fetched ELSE NotLoaded
    /\ UNCHANGED <<storeVars, netVars, searchQuery, sortVars, uiVars>>

(* Choosing a value of the status select; the filter is part of the query
   key, so the list for the new key is not loaded yet.  The page is kept. *)
setStatusFilter(value) ==
    /\ statusFilter' = value
    /\ fetched' = IF value = statusFilter THEN fetched ELSE NotLoaded
    /\ UNCHANGED <<storeVars, netVars, searchQuery, page, sortVars, uiVars>>

(* Typing in the search box. *)
SetSearchQuery(q) ==
    /\ searchQuery' = q
    /\ UNCHANGED <<storeVars, netVars, fetched, page, statusFilter, sortVars, uiVars>>

(***************************************************************************)
(* SpecPage: the dashboard is opened on a store that already holds up to   *)
(* MaxStore experiments (as many creates have been handled); it pages      *)
(* through the list while experiments are being deleted.                   *)
(***************************************************************************)
StoredRow(i) == [id |-> i, name |-> NameTest, status |-> "running",
                 hyperparameters |-> HpLr, tags |-> <<>>, created_at |-> i]

InitPage ==
    \E n \in 0 .. MaxStore :
        /\ experiments = [i \in 1 .. n |-> StoredRow(i)]
        /\ metrics = <<>>
        /\ artifacts = <<>>
        /\ nextExperimentId = n + 1
        /\ nextMetricId = 1
        /\ nextArtifactId = 1
        /\ net = EmptyBag
        /\ last = [call |-> NoCall, resp |-> Response(0), from |-> Absent,
                   had |-> NoneOwned]
        /\ createdAs = [i \in 1 .. n |->
                          [name |-> NameTest, hyperparameters |-> HpLr]]
        /\ fetched = NotLoaded
        /\ searchQuery = <<>>
        /\ page = 1
        /\ statusFilter = "all"
        /\ sortBy = "date"
        /\ sortOrder = "desc"
        /\ InitPages

PageDeleteInputs == {2, 23}

NextPageSpec ==
    \/ QueryDone
    \/ NextPage
    \/ PreviousPage
    \/ \E id \in PageDeleteInputs : Await(CallDelete(id))

SpecPage == InitPage /\ [][NextPageSpec]_vars

(* C8: offset pagination with page size 20.  For every page p >= 1 the list
   request carries skip = (p-1)*20 and limit = 20, and it returns exactly the
   items at positions (p-1)*20+1 .. p*20 of the store's sequence, in store
   order, fewer when the store ends earlier. *)
C8_OffsetPagination ==
    \A p \in 1 .. (Len(experiments) \div 20) + 2 :
        /\ getExperiments(p, "").params.skip = (p - 1) * 20
        /\ getExperiments(p, "").params.limit = 20
        /\ getExperiments(p, "").params.status = Absent
        /\ Fetch(getExperiments(p, "")).list
              = SubSeq(experiments, (p - 1) * 20 + 1, Min2(p * 20, Len(experiments)))

(* C8 witness: the dashboard is on page 2 of a store whose order is no longer
   the order of the ids, and what it fetched are the items 21 to 40. *)
C8_Witness ==
    /\ page = 2
    /\ fetched.loaded
    /\ Len(experiments) >= 40
    /\ experiments[21].id # 21
    /\ fetched.data = SubSeq(experiments, 21, 40)

(***************************************************************************)
(* JavaScript string functions the dashboard's search uses, on strings     *)
(* over letters, digits and the space.                                     *)
(***************************************************************************)
UpperLetters == <<"A", "B", "T", "X">>

LowerLetters == <<"a", "b", "t", "x">>

(* String.prototype.toLowerCase, one character *)
LowerChar(ch) ==
    IF \E k \in DOMAIN UpperLetters : UpperLetters[k] = ch
    THEN LowerLetters[CHOOSE k \in DOMAIN UpperLetters : UpperLetters[k] = ch]
    ELSE ch

toLowerCase(str) == [i \in DOMAIN str |-> LowerChar(str[i])]

(* String.prototype.trim: drops the white space at both ends *)
RECURSIVE trimStart(_)
trimStart(str) ==
    IF str # <<>> /\ Head(str) = " " THEN trimStart(Tail(str)) ELSE str

RECURSIVE trimEnd(_)
trimEnd(str) ==
    IF str # <<>> /\ str[Len(str)] = " "
    THEN trimEnd(SubSeq(str, 1, Len(str) - 1)) ELSE str

trim(str) == trimEnd(trimStart(str))

(* String.prototype.includes: scans the start positions from the left *)
RECURSIVE includesFrom(_, _, _)
includesFrom(str, search, pos) ==
    IF pos + Len(search) - 1 > Len(str) THEN FALSE
    ELSE IF SubSeq(str, pos, pos + Len(search) - 1) = search THEN TRUE
    ELSE includesFrom(str, search, pos + 1)

includes(str, search) == includesFrom(str, search, 1)

(* Number.prototype.toString of an id: its decimal digits *)
Digits == <<"0", "1", "2", "3", "4", "5", "6", "7", "8", "9">>

RECURSIVE toString(_)
toString(n) ==
    IF n < 10 THEN <<Digits[n + 1]>>
    ELSE Append(toString(n \div 10), Digits[(n % 10) + 1])

(***************************************************************************)
(* DashboardPage.filteredExperiments, the search step: with a non-blank    *)
(* search text, keep the experiments whose lower-cased name, whose id or   *)
(* one of whose lower-cased tags includes the lower-cased text.            *)
(***************************************************************************)
(* The search step with the name compared as it is stored. *)
searchFiltered_NameAsStored(exps, query) ==
    IF trim(query) # <<>>
    THEN LET q == toLowerCase(query)
             keep(exp) ==
                 \/ includes(exp.name, q)
                 \/ includes(toString(exp.id), q)
                 \/ \E t \in DOMAIN exp.tags : includes(toLowerCase(exp.tags[t]), q)
         IN SelectSeq(exps, keep)
    ELSE exps

searchFiltered(exps, query) ==
    IF trim(query) # <<>>
    THEN LET q == toLowerCase(query)
             keep(exp) ==
                 \/ includes(toLowerCase(exp.name), q)
                 \/ includes(toString(exp.id), q)
                 \/ \E t \in DOMAIN exp.tags : includes(toLowerCase(exp.tags[t]), q)
         IN SelectSeq(exps, keep)
    ELSE exps

(***************************************************************************)
(* SpecSearch: the dashboard is opened on a store of two experiments with  *)
(* ids 7 and 12 and any names and tags of the input sets; the list is      *)
(* fetched and the search text is edited.                                  *)
(***************************************************************************)
SearchNames == {<<"A", "b">>, <<"b", "a">>, <<"T", "1">>}

SearchTagLists == {<<>>, << <<"a", "B">> >>, << <<"x">>, <<"1", "2">> >>}

SearchQueries ==
    {<<>>, <<" ">>, <<"a">>, <<"A", "B">>, <<"b", " ">>, <<" ", "a">>,
     <<"1", "2">>, <<"2">>, <<"T">>, <<"X">>}

SearchRow(i, n, t) == [id |-> i, name |-> n, status |-> "running",
                       hyperparameters |-> HpNone, tags |-> t, created_at |-> i]

InitSearch ==
    \E n1 \in SearchNames, n2 \in SearchNames,
       t1 \in SearchTagLists, t2 \in SearchTagLists :
        /\ experiments = <<SearchRow(7, n1, t1), SearchRow(12, n2, t2)>>
        /\ metrics = <<>>
        /\ artifacts = <<>>
        /\ nextExperimentId = 13
        /\ nextMetricId = 1
        /\ nextArtifactId = 1
        /\ net = EmptyBag
        /\ last = [call |-> NoCall, resp |-> Response(0), from |-> Absent,
                   had |-> NoneOwned]
        /\ createdAs = [i \in 1 .. 12 |->
                          [name |-> IF i = 7 THEN n1 ELSE n2,
                           hyperparameters |-> HpNone]]
        /\ fetched = NotLoaded
        /\ searchQuery = <<>>
        /\ page = 1
        /\ statusFilter = "all"
        /\ sortBy = "date"
        /\ sortOrder = "desc"
        /\ InitPages

NextSearch ==
    \/ QueryDone
    \/ \E q \in SearchQueries : SetSearchQuery(q)

SpecSearch == InitSearch /\ [][NextSearch]_vars

(* Two characters that are equal or are the two cases of one letter. *)
SameLetter(a, b) ==
    \/ a = b
    \/ <<a, b>> \in {<<"a", "A">>, <<"A", "a">>, <<"b", "B">>, <<"B", "b">>,
                     <<"t", "T">>, <<"T", "t">>, <<"x", "X">>, <<"X", "x">>}

(* text occurs in str as a substring, letter case disregarded. *)
OccursIn(text, str) ==
    \E i \in 1 .. Len(str) + 1 :
        /\ i + Len(text) - 1 <= Len(str)
        /\ \A k \in 1 .. Len(text) : SameLetter(text[k], str[i + k - 1])

(* C10: dashboard text search.  With a blank search text (empty or only
   spaces) every fetched experiment is shown; otherwise a fetched experiment
   is shown if and only if the text, letter case disregarded, is a substring
   of its name, of its id or of one of its tags; nothing else is shown. *)
C10_TextSearch ==
    fetched.loaded =>
        LET shown == searchFiltered(fetched.data, searchQuery)
            blank == \A k \in DOMAIN searchQuery : searchQuery[k] = " "
        IN  /\ Range(shown) \subseteq Range(fetched.data)
            /\ \A k \in DOMAIN fetched.data :
                  LET exp == fetched.data[k]
                  IN  (exp \in Range(shown)) <=>
                         \/ blank
                         \/ OccursIn(searchQuery, exp.name)
                         \/ OccursIn(searchQuery, toString(exp.id))
                         \/ \E t \in DOMAIN exp.tags : OccursIn(searchQuery, exp.tags[t])

(* C10 witness: the text "AB" shows one of the two fetched experiments, by
   its tag "aB", and hides the other. *)
C10_Witness ==
    /\ fetched.loaded
    /\ searchQuery = <<"A", "B">>
    /\ Len(fetched.data) = 2
    /\ Len(searchFiltered(fetched.data, searchQuery)) = 1
    /\ searchFiltered(fetched.data, searchQuery)[1].name = <<"T", "1">>
    /\ searchFiltered(fetched.data, searchQuery)[1].tags = << <<"a", "B">> >>

(***************************************************************************)
(* DashboardPage.handleSort and the sort step of filteredExperiments.      *)
(* String.prototype.localeCompare is the collation of the letters, digits  *)
(* and the space: first by the letters with their case disregarded (space  *)
(* before digits before letters, a prefix before the longer string), then, *)
(* between strings of the same letters, lower case before upper case at    *)
(* the first position where the case differs.  Its result is -1, 0 or 1.   *)
(***************************************************************************)
Alphabet == <<" ", "0", "1", "2", "3", "4", "5", "6", "7", "8", "9",
              "a", "b", "c", "d", "e", "f", "g", "h", "i", "j", "k", "l", "m",
              "n", "o", "p", "q", "r", "s", "t", "u", "v", "w", "x", "y", "z">>

PrimaryWeight(ch) == CHOOSE k \in DOMAIN Alphabet : Alphabet[k] = LowerChar(ch)

RECURSIVE PrimaryCompare(_, _)
PrimaryCompare(a, b) ==
    IF a = <<>> /\ b = <<>> THEN 0
    ELSE IF a = <<>> THEN -1
    ELSE IF b = <<>> THEN 1
    ELSE IF PrimaryWeight(Head(a)) < PrimaryWeight(Head(b)) THEN -1
    ELSE IF PrimaryWeight(Head(a)) > PrimaryWeight(Head(b)) THEN 1
    ELSE PrimaryCompare(Tail(a), Tail(b))

RECURSIVE CaseCompare(_, _)
CaseCompare(a, b) ==
    IF a = <<>> \/ b = <<>> THEN 0
    ELSE IF Head(a) = Head(b) THEN CaseCompare(Tail(a), Tail(b))
    ELSE IF LowerChar(Head(a)) = Head(a) THEN -1
    ELSE 1

localeCompare(a, b) ==
    IF PrimaryCompare(a, b) # 0 THEN PrimaryCompare(a, b) ELSE CaseCompare(a, b)

(* The characters of a status value. *)
StatusChars(status) ==
    CASE status = "running"   -> <<"r", "u", "n", "n", "i", "n", "g">>
      [] status = "completed" -> <<"c", "o", "m", "p", "l", "e", "t", "e", "d">>
      [] status = "failed"    -> <<"f", "a", "i", "l", "e", "d">>

SortFields == {"date", "status", "name"}

(* Clicking a column header: the same field toggles the direction, another
   field is selected in descending order. *)
(* A handleSort that takes a new field with the order it finds. *)
handleSortFrom_KeepOrder(st, field) ==
    IF st.sortBy = field
    THEN [sortBy |-> st.sortBy,
          sortOrder |-> IF st.sortOrder = "asc" THEN "desc" ELSE "asc"]
    ELSE [sortBy |-> field, sortOrder |-> st.sortOrder]

(* handleSort as a function of the sort state it reads: the same field
   toggles the order, a new field is taken with the order desc. *)
handleSortFrom(st, field) ==
    IF st.sortBy = field
    THEN [sortBy |-> st.sortBy,
          sortOrder |-> IF st.sortOrder = "asc" THEN "desc" ELSE "asc"]
    ELSE [sortBy |-> field, sortOrder |-> "desc"]

(* A click on the header of a column (SortableHeader's onSort). *)
handleSort(field) ==
    /\ fetched.loaded
    /\ LET after == handleSortFrom([sortBy |-> sortBy, sortOrder |-> sortOrder], field)
       IN  /\ sortBy' = after.sortBy
           /\ sortOrder' = after.sortOrder
    /\ UNCHANGED <<storeVars, netVars, fetched, searchQuery, page, statusFilter, uiVars>>

(* A comparator that leaves the direction out. *)
compareFn_Ascending(a, b, by, order) ==
    CASE by = "date"   -> a.created_at - b.created_at
      [] by = "status" -> localeCompare(StatusChars(a.status), StatusChars(b.status))
      [] by = "name"   -> localeCompare(a.name, b.name)

(* The comparator given to sort; created_at is the epoch value that
   new Date(created_at).getTime() reads from it. *)
compareFn(a, b, by, order) ==
    LET comparison ==
            CASE by = "date"   -> a.created_at - b.created_at
              [] by = "status" -> localeCompare(StatusChars(a.status),
                                                StatusChars(b.status))
              [] by = "name"   -> localeCompare(a.name, b.name)
    IN IF order = "asc" THEN comparison ELSE -comparison

(* Array.prototype.sort with that comparator: a stable sort.  Each element is
   put behind the last one already placed that does not compare greater. *)
RECURSIVE InsertSorted(_, _, _, _)
InsertSorted(out, x, by, order) ==
    IF out # <<>> /\ compareFn(out[Len(out)], x, by, order) > 0
    THEN Append(InsertSorted(SubSeq(out, 1, Len(out) - 1), x, by, order),
                out[Len(out)])
    ELSE Append(out, x)

RECURSIVE ArraySort(_, _, _, _)
ArraySort(out, rest, by, order) ==
    IF rest = <<>> THEN out
    ELSE ArraySort(InsertSorted(out, Head(rest), by, order), Tail(rest), by, order)

(* filteredExperiments: the search step, then the sort of a copy. *)
filteredExperiments(exps, query, by, order) ==
    ArraySort(<<>>, searchFiltered(exps, query), by, order)

(***************************************************************************)
(* SpecSort: the dashboard is opened on a store of three experiments with  *)
(* any names, statuses and creation times of the input sets, several of    *)
(* them equal; the list is fetched, the search text is edited and the      *)
(* column headers are clicked.                                             *)
(***************************************************************************)
SortNames == {<<"b">>, <<"a">>, <<"A">>}

SortStatuses == {"running", "failed"}

SortTimes == {1, 2}

SortQueries == {<<>>, <<"a">>}

SortRow(i, n, st, t) == [id |-> i, name |-> n, status |-> st,
                         hyperparameters |-> HpNone, tags |-> <<>>, created_at |-> t]

InitSort ==
    \E n \in [1 .. 3 -> SortNames], st \in [1 .. 3 -> SortStatuses],
       t \in [1 .. 3 -> SortTimes] :
        /\ experiments = [i \in 1 .. 3 |-> SortRow(i, n[i], st[i], t[i])]
        /\ metrics = <<>>
        /\ artifacts = <<>>
        /\ nextExperimentId = 4
        /\ nextMetricId = 1
        /\ nextArtifactId = 1
        /\ net = EmptyBag
        /\ last = [call |-> NoCall, resp |-> Response(0), from |-> Absent,
                   had |-> NoneOwned]
        /\ createdAs = [i \in 1 .. 3 |-> [name |-> n[i], hyperparameters |-> HpNone]]
        /\ fetched = NotLoaded
        /\ searchQuery = <<>>
        /\ page = 1
        /\ statusFilter = "all"
        /\ sortBy = "date"
        /\ sortOrder = "desc"
        /\ InitPages

NextSort ==
    \/ QueryDone
    \/ \E q \in SortQueries : SetSearchQuery(q)
    \/ \E f \in SortFields : handleSort(f)

SpecSort == InitSort /\ [][NextSort]_vars

(* The order of the keys, stated without the comparator: a comes strictly
   before b by creation time, by the alphabetical order of the status names,
   or by the dictionary order of the names (case disregarded first, then
   lower case first). *)
LetterBefore(x, y) ==
    \E i, j \in DOMAIN Alphabet :
        i < j /\ Alphabet[i] = LowerChar(x) /\ Alphabet[j] = LowerChar(y)

NameBefore(a, b) ==
    \/ \E k \in 1 .. Len(b) :
          /\ \A i \in 1 .. k - 1 : i <= Len(a) /\ SameLetter(a[i], b[i])
          /\ \/ k = Len(a) + 1
             \/ k <= Len(a) /\ LetterBefore(a[k], b[k])
    \/ /\ Len(a) = Len(b)
       /\ \A i \in DOMAIN a : SameLetter(a[i], b[i])
       /\ \E k \in DOMAIN a :
             /\ \A i \in 1 .. k - 1 : a[i] = b[i]
             /\ a[k] # b[k]
             /\ a[k] \in Range(LowerLetters)

KeyBefore(by, a, b) ==
    CASE by = "date"   -> a.created_at < b.created_at
      [] by = "status" -> <<a.status, b.status>> \in
                             {<<"completed", "failed">>, <<"completed", "running">>,
                              <<"failed", "running">>}
      [] by = "name"   -> NameBefore(a.name, b.name)

PositionIn(list, x) == CHOOSE i \in DOMAIN list : list[i] = x

(* C11: dashboard local sort.  What the dashboard shows is a permutation of
   the search-filtered list; no experiment is shown before one whose key comes
   strictly before it in the selected direction; and two experiments with
   equal keys are shown in the order they have in the fetched list, ascending
   and descending alike. *)
C11_LocalSort ==
    fetched.loaded =>
        LET base  == searchFiltered(fetched.data, searchQuery)
            shown == filteredExperiments(fetched.data, searchQuery, sortBy, sortOrder)
            first(a, b) == IF sortOrder = "asc" THEN KeyBefore(sortBy, a, b)
                           ELSE KeyBefore(sortBy, b, a)
        IN  /\ Len(shown) = Len(base)
            /\ \A x \in Range(base) \cup Range(shown) :
                  Cardinality({i \in DOMAIN shown : shown[i] = x})
                     = Cardinality({i \in DOMAIN base : base[i] = x})
            /\ \A i, j \in DOMAIN shown :
                  i < j =>
                     /\ ~first(shown[j], shown[i])
                     /\ (~first(shown[i], shown[j])) =>
                           PositionIn(fetched.data, shown[i])
                              < PositionIn(fetched.data, shown[j])

(* C11 witness: sorted by name in descending order, "b" is shown before the
   two experiments named "a", which keep their fetched order though the one
   the list has first was created later. *)
C11_Witness ==
    /\ fetched.loaded
    /\ sortBy = "name"
    /\ sortOrder = "desc"
    /\ searchQuery = <<>>
    /\ [i \in 1 .. 3 |-> fetched.data[i].name] = <<<<"a">>, <<"b">>, <<"a">>>>
    /\ fetched.data[1].created_at > fetched.data[3].created_at
    /\ [i \in 1 .. 3 |->
          filteredExperiments(fetched.data, searchQuery, sortBy, sortOrder)[i].id]
          = <<2, 1, 3>>

(***************************************************************************)
(* SpecUpdates: status and tag updates on a registry whose experiments own *)
(* metrics and artifacts, one caller at a time.                            *)
(***************************************************************************)
UpdateLogInputs == {<<Point(1, "loss", 5), Point(2, "loss", 3)>>}

NextUpdates ==
    \/ \E d \in CreateInputs : Await(CallCreate(d))
    \/ \E id \in IdInputs, pts \in UpdateLogInputs : Await(CallLog(id, pts))
    \/ \E id \in IdInputs, f \in FileInputs : Await(CallUpload(id, f))
    \/ \E id \in IdInputs, st \in RaceStatusInputs \cup {"paused"} :
          Await(CallUpdateStatus(id, st))
    \/ \E id \in IdInputs : Await(CallUpdateTags(id, <<TagA>>))

SpecUpdates == Init /\ [][NextUpdates]_vars

(* C16: dedicated updates have a narrow effect.  A handled update_status with
   a valid value on an existing experiment replaces that experiment's status
   and nothing else of the experiment store; a handled update_tags on an
   existing experiment replaces that experiment's tags and nothing else; and
   no handled update, successful or not, changes the number of experiments,
   the id, name, hyperparameters or created_at of any of them, a metric or an
   artifact. *)
C16_NarrowUpdates ==
    [][ LET c == last'.call
        IN  /\ (/\ c.fn = "updateExperimentStatus"
                /\ c.status \in Statuses
                /\ c.id \in ExperimentIds(World))
               => experiments' =
                     [i \in DOMAIN experiments |->
                        IF experiments[i].id = c.id
                        THEN [experiments[i] EXCEPT !.status = c.status]
                        ELSE experiments[i]]
            /\ (c.fn = "updateExperimentTags" /\ c.id \in ExperimentIds(World))
               => experiments' =
                     [i \in DOMAIN experiments |->
                        IF experiments[i].id = c.id
                        THEN [experiments[i] EXCEPT !.tags = c.tags]
                        ELSE experiments[i]]
            /\ c.fn \in {"updateExperimentStatus", "updateExperimentTags"}
               => /\ UNCHANGED <<metrics, artifacts>>
                  /\ DOMAIN experiments' = DOMAIN experiments
                  /\ \A i \in DOMAIN experiments :
                        /\ experiments'[i].id = experiments[i].id
                        /\ experiments'[i].name = experiments[i].name
                        /\ experiments'[i].hyperparameters = experiments[i].hyperparameters
                        /\ experiments'[i].created_at = experiments[i].created_at
                        /\ experiments[i].id # c.id => experiments'[i] = experiments[i]
      ]_vars

(* C16 witness: a tag update has just succeeded on one of two experiments
   that both own metrics and an artifact; the other experiment has another
   status and other tags, and the updated one kept its status. *)
C16_Witness ==
    /\ last.call.fn = "updateExperimentTags"
    /\ last.resp.code = 200
    /\ Len(experiments) = 2
    /\ \A i \in DOMAIN experiments :
          /\ Owned(experiments[i].id).metrics >= 2
          /\ Owned(experiments[i].id).artifacts >= 1
    /\ \E i, j \in DOMAIN experiments :
          /\ experiments[i].id = last.call.id
          /\ experiments[i].tags = <<TagA>>
          /\ experiments[i].status = "failed"
          /\ experiments[j].status = "completed"
          /\ experiments[j].tags = <<TagB>>

(* C17: experiment ids are unique.  No two experiments of the store have the
   same id; get(id) answers with the one experiment that has the id, or with
   NotFound; and the id a successful create has just returned is the id of
   exactly one experiment of the store. *)
C17_UniqueIds ==
    /\ \A i, j \in DOMAIN experiments :
          i # j => experiments[i].id # experiments[j].id
    /\ \A id \in IdInputs :
          LET r == Fetch(getExperiment(id))
          IN  IF r.code = 200
              THEN {i \in DOMAIN experiments : experiments[i].id = id}
                      = {i \in DOMAIN experiments : experiments[i] = r.experiment}
              ELSE {i \in DOMAIN experiments : experiments[i].id = id} = {}
    /\ (last.call.fn = "createExperiment" /\ last.resp.code = 200) =>
          Cardinality({i \in DOMAIN experiments :
                          experiments[i].id = last.resp.experiment.id}) = 1

(* C17 witness: a second create has just succeeded with the same name,
   hyperparameters and tags as the experiment already there, and the two
   have different ids. *)
C17_Witness ==
    /\ last.call.fn = "createExperiment"
    /\ last.resp.code = 200
    /\ Len(experiments) = 2
    /\ experiments[1].name = experiments[2].name
    /\ experiments[1].tags = experiments[2].tags
    /\ experiments[1].status = experiments[2].status
    /\ experiments[1].id # experiments[2].id

(* C18: deleting an artifact removes exactly that artifact.  A handled
   delete(id) of an artifact in the store is answered 204; right after it
   download(id) and another delete(id) are answered 404, list(experiment_id)
   is the former list without that artifact, the other artifacts with their
   payloads are as they were, and so are the experiments and the metrics. *)
C18_ArtifactDelete ==
    [][ \A a \in ArtifactIdInputs :
          (/\ last'.call.fn = "deleteArtifact"
           /\ last'.call.id = a
           /\ a \in ArtifactIds(World)) =>
             LET other(x) == x.id # a
             IN  /\ last'.resp.code = 204
                 /\ Fetch(downloadArtifact(a))'.code = 404
                 /\ Handle(World, deleteArtifact(a))'.resp.code = 404
                 /\ Handle(World, deleteArtifact(a))'.world = World'
                 /\ \A e \in IdInputs :
                       ListedArtifacts(e)' = SelectSeq(ListedArtifacts(e), other)
                 /\ \A e \in IdInputs :
                       e = ArtifactRow(World, a).experiment_id =>
                          Len(ListedArtifacts(e)') = Len(ListedArtifacts(e)) - 1
                 /\ artifacts' = SelectSeq(artifacts, other)
                 /\ UNCHANGED <<experiments, metrics>>
      ]_vars

(* C18 witness: of two artifacts of one experiment, one has just been
   deleted; the other is still listed and can be downloaded. *)
C18_Witness ==
    /\ last.call.fn = "deleteArtifact"
    /\ last.resp.code = 204
    /\ Fetch(downloadArtifact(last.call.id)).code = 404
    /\ \E a \in ArtifactIdInputs :
          /\ a # last.call.id
          /\ Fetch(downloadArtifact(a)).code = 200
          /\ Fetch(downloadArtifact(a)).payload = <<1, 2>>
          /\ \E e \in ExperimentIds(World) :
                /\ Len(ListedArtifacts(e)) = 1
                /\ ListedArtifacts(e)[1].id = a
                /\ Owned(e).metrics >= 1

(* C19: a log call carries its whole sequence in one request.  The request of
   logMetrics(id, points) is one POST to /experiments/{id}/metrics whose body
   is {metrics: points}; handled for an existing experiment it is accepted
   (202), and right after that the last Len(points) rows of list(id) are the
   points, in the order given, with their step, metric_name and value. *)
C19_LogSequence ==
    /\ \A id \in IdInputs, pts \in LogInputs :
          /\ logMetrics(id, pts).method = "POST"
          /\ logMetrics(id, pts).path = <<Lit("experiments"), Var(id), Lit("metrics")>>
          /\ logMetrics(id, pts).body.hasMetrics
          /\ logMetrics(id, pts).body.metrics = pts
    /\ (last.call.fn = "logMetrics" /\ last.call.id \in ExperimentIds(World)) =>
          LET pts    == last.call.points
              listed == ListedMetrics(last.call.id)
              n      == Len(listed) - Len(pts)
          IN  /\ last.resp.code = 202
              /\ n >= 0
              /\ \A k \in DOMAIN pts :
                    /\ listed[n + k].step = pts[k].step
                    /\ listed[n + k].metric_name = pts[k].metric_name
                    /\ listed[n + k].value = pts[k].value

(* C19 witness: a sequence of two points of different metrics has just been
   accepted for an experiment that already had points; list(id) ends with
   the two, in the order given. *)
C19_Witness ==
    /\ last.call.fn = "logMetrics"
    /\ last.resp.code = 202
    /\ last.call.points = <<Point(1, "loss", 7), Point(3, "acc", 1)>>
    /\ Len(ListedMetrics(last.call.id)) = 4
    /\ ListedMetrics(last.call.id)[3].metric_name = "loss"
    /\ ListedMetrics(last.call.id)[3].value = 7
    /\ ListedMetrics(last.call.id)[4].metric_name = "acc"
    /\ ListedMetrics(last.call.id)[4].step = 3

(***************************************************************************)
(* SpecFilter: the dashboard's status filter on a registry whose           *)
(* experiments change status.                                              *)
(***************************************************************************)
FilterItems == {"all", "running", "completed", "failed"}

NextFilter ==
    \/ \E d \in CreateInputs : Await(CallCreate(d))
    \/ \E id \in IdInputs, st \in SelectItems : Await(CallUpdateStatus(id, st))
    \/ \E v \in FilterItems : setStatusFilter(v)
    \/ QueryDone

SpecFilter == Init /\ [][NextFilter]_vars

(* C20: status filter on list.  getExperiments(page, status) carries a status
   parameter exactly when status is set and is not 'all', and then the
   parameter is that status; the answer to a request with a status is the
   experiments of the store with that status and no others, in store order,
   and the answer with 'all' or without a status is the whole store (up to
   the page size); what the dashboard has fetched under a filter other than
   'all' are experiments of that status only. *)
C20_StatusFilter ==
    /\ \A st \in {"", "all"} \cup Statuses :
          LET req == getExperiments(1, st)
              has(e) == e.status = st
          IN  IF st \in {"", "all"}
              THEN /\ req.params.status = Absent
                   /\ Fetch(req).list = SubSeq(experiments, 1, Min2(20, Len(experiments)))
              ELSE /\ req.params.status = st
                   /\ Fetch(req).list = SelectSeq(experiments, has)
                   /\ \A k \in DOMAIN Fetch(req).list : Fetch(req).list[k].status = st
    /\ (fetched.loaded /\ statusFilter # "all") =>
          \A k \in DOMAIN fetched.data : fetched.data[k].status = statusFilter

(* C20 witness: under the filter 'completed' the dashboard has fetched the one
   completed experiment of a store that also holds a failed one. *)
C20_Witness ==
    /\ statusFilter = "completed"
    /\ fetched.loaded
    /\ Len(experiments) = 2
    /\ experiments[1].status = "failed"
    /\ experiments[2].status = "completed"
    /\ fetched.data = <<experiments[2]>>
    /\ Len(Fetch(getExperiments(1, "all")).list) = 2

(***************************************************************************)
(* JSON.parse, on texts over the space, digits, letters and the            *)
(* punctuation of JSON: objects, arrays, strings without escapes, unsigned *)
(* integers without a leading zero, true, false and null.  A parse result  *)
(* is [ok, value, next]: next is the position behind the value; ok is      *)
(* FALSE where JSON.parse throws a SyntaxError.                            *)
(***************************************************************************)
SyntaxError == [ok |-> FALSE, value |-> Undefined, next |-> 0]

Parsed(v, n) == [ok |-> TRUE, value |-> v, next |-> n]

RECURSIVE SkipWs(_, _)
SkipWs(s, i) == IF i <= Len(s) /\ s[i] = " " THEN SkipWs(s, i + 1) ELSE i

IsDigit(ch) == \E k \in DOMAIN Digits : Digits[k] = ch

DigitValue(ch) == (CHOOSE k \in DOMAIN Digits : Digits[k] = ch) - 1

RECURSIVE ParseDigits(_, _, _)
ParseDigits(s, i, n) ==
    IF i <= Len(s) /\ IsDigit(s[i])
    THEN ParseDigits(s, i + 1, 10 * n + DigitValue(s[i]))
    ELSE Parsed(JsonNumber(n), i)

ParseNumber(s, i) ==
    IF s[i] = "0" THEN Parsed(JsonNumber(0), i + 1) ELSE ParseDigits(s, i, 0)

(* The characters of a string, from behind its opening quote. *)
RECURSIVE ParseChars(_, _, _)
ParseChars(s, i, acc) ==
    IF i > Len(s) THEN SyntaxError
    ELSE IF s[i] = "\"" THEN Parsed(JsonString(acc), i + 1)
    ELSE ParseChars(s, i + 1, Append(acc, s[i]))

ParseLiteral(s, i, word, v) ==
    IF i + Len(word) - 1 <= Len(s) /\ SubSeq(s, i, i + Len(word) - 1) = word
    THEN Parsed(v, i + Len(word))
    ELSE SyntaxError

(* A member with a key the object already has replaces that member's value. *)
SetMember(members, key, value) ==
    IF \E k \in DOMAIN members : members[k].key = key
    THEN [k \in DOMAIN members |->
            IF members[k].key = key THEN [key |-> key, value |-> value]
            ELSE members[k]]
    ELSE Append(members, [key |-> key, value |-> value])

RECURSIVE ParseValue(_, _)
RECURSIVE ParseMembers(_, _, _)
RECURSIVE ParseItems(_, _, _)
ParseValue(s, from) ==
    LET i == SkipWs(s, from)
    IN  IF i > Len(s) THEN SyntaxError
        ELSE CASE s[i] = "{" ->
                    LET j == SkipWs(s, i + 1)
                    IN  IF j <= Len(s) /\ s[j] = "}"
                        THEN Parsed(JsonObject(<<>>), j + 1)
                        ELSE ParseMembers(s, j, <<>>)
               [] s[i] = "[" ->
                    LET j == SkipWs(s, i + 1)
                    IN  IF j <= Len(s) /\ s[j] = "]"
                        THEN Parsed(JsonArray(<<>>), j + 1)
                        ELSE ParseItems(s, j, <<>>)
               [] s[i] = "\"" -> ParseChars(s, i + 1, <<>>)
               [] IsDigit(s[i]) -> ParseNumber(s, i)
               [] s[i] = "t" -> ParseLiteral(s, i, <<"t", "r", "u", "e">>, Json("true"))
               [] s[i] = "f" -> ParseLiteral(s, i, <<"f", "a", "l", "s", "e">>, Json("false"))
               [] s[i] = "n" -> ParseLiteral(s, i, <<"n", "u", "l", "l">>, Json("null"))
               [] OTHER -> SyntaxError

(* The members of an object, from the opening quote of a key. *)
ParseMembers(s, i, acc) ==
    IF i > Len(s) \/ s[i] # "\"" THEN SyntaxError
    ELSE LET k == ParseChars(s, i + 1, <<>>)
         IN  IF ~k.ok THEN SyntaxError
             ELSE LET c == SkipWs(s, k.next)
                  IN  IF c > Len(s) \/ s[c] # ":" THEN SyntaxError
                      ELSE LET v == ParseValue(s, c + 1)
                           IN  IF ~v.ok THEN SyntaxError
                               ELSE LET e == SkipWs(s, v.next)
                                        all == SetMember(acc, k.value.str, v.value)
                                    IN  IF e > Len(s) THEN SyntaxError
                                        ELSE IF s[e] = "}"
                                        THEN Parsed(JsonObject(all), e + 1)
                                        ELSE IF s[e] = ","
                                        THEN ParseMembers(s, SkipWs(s, e + 1), all)
                                        ELSE SyntaxError

(* The items of an array, from the start of an item. *)
ParseItems(s, i, acc) ==
    LET v == ParseValue(s, i)
    IN  IF ~v.ok THEN SyntaxError
        ELSE LET e == SkipWs(s, v.next)
                 all == Append(acc, v.value)
             IN  IF e > Len(s) THEN SyntaxError
                 ELSE IF s[e] = "]" THEN Parsed(JsonArray(all), e + 1)
                 ELSE IF s[e] = "," THEN ParseItems(s, SkipWs(s, e + 1), all)
                 ELSE SyntaxError

JSONparse(text) ==
    LET r == ParseValue(text, 1)
    IN  IF r.ok /\ SkipWs(text, r.next) > Len(text) THEN r ELSE SyntaxError

(***************************************************************************)
(* useMutation as the pages use it.  The options of a mutation are its     *)
(* mutationFn and its callbacks; no page passes a retry option, and        *)
(* without one a mutation is not retried.  mutate issues the request and   *)
(* makes the mutation pending; when the response arrives the mutation      *)
(* succeeds (2xx) or fails (any other status, or no answer at all), and a  *)
(* failed one is issued again only while its failureCount is below retry.  *)
(***************************************************************************)
NotSet == -1

DefaultMutationRetry == 0

(* NewExperimentPage: mutation *)
createMutation ==
    [mutationFn |-> "createExperiment", retry |-> NotSet, onError |-> "setError",
     invalidates |-> {"experiments"}]

(* An ExperimentsTable status mutation that is given retry: 1. *)
tableStatusMutation_Retry ==
    [mutationFn |-> "updateExperimentStatus", retry |-> 1, onError |-> "none",
     invalidates |-> {"experiments"}]

(* ExperimentsTable: statusMutation and deleteMutation *)
tableStatusMutation ==
    [mutationFn |-> "updateExperimentStatus", retry |-> NotSet, onError |-> "none",
     invalidates |-> {"experiments"}]

tableDeleteMutation ==
    [mutationFn |-> "deleteExperiment", retry |-> NotSet, onError |-> "none",
     invalidates |-> {"experiments"}]

(* ExperimentDetailPage: statusMutation and tagsMutation *)
detailStatusMutation ==
    [mutationFn |-> "updateExperimentStatus", retry |-> NotSet, onError |-> "none",
     invalidates |-> {"experiment", "experiments"}]

(* A tags mutation whose onSuccess invalidates the list only. *)
detailTagsMutation_ListOnly ==
    [mutationFn |-> "updateExperimentTags", retry |-> NotSet, onError |-> "none",
     invalidates |-> {"experiments"}]

detailTagsMutation ==
    [mutationFn |-> "updateExperimentTags", retry |-> NotSet, onError |-> "none",
     invalidates |-> {"experiment", "experiments"}]

MutationOptions(m) ==
    CASE m = "create"       -> createMutation
      [] m = "tableStatus"  -> tableStatusMutation
      [] m = "tableDelete"  -> tableDeleteMutation
      [] m = "detailStatus" -> detailStatusMutation
      [] m = "detailTags"   -> detailTagsMutation

MutationRetry(m) ==
    IF MutationOptions(m).retry = NotSet THEN DefaultMutationRetry
    ELSE MutationOptions(m).retry

Ran(handler) == [handler |-> handler, tick |-> 1 - lastEvent.tick]

Issued(inv, c) == [inv |-> inv, fn |-> c.fn, request |-> RequestOf(c)]

(* mutation.mutate(variables) *)
Mutate(m, c) ==
    /\ invoked < MaxCalls
    /\ WithinBounds(c)
    /\ invoked' = invoked + 1
    /\ sent' = Append(sent, Issued(invoked + 1, c))
    /\ mutations' = [mutations EXCEPT ![m] =
                        [status |-> "pending", call |-> c, inv |-> invoked + 1,
                         failureCount |-> 0]]

(* What axios reports of a failed request: error.message *)
ErrorMessage(answered) ==
    IF answered THEN "Request failed with status code" ELSE "Network Error"

(* What the experiment page's queries return for its id in world w. *)
DetailData(w, id) ==
    [id |-> id, loaded |-> TRUE, invalidated |-> FALSE,
     experiment |-> Handle(w, getExperiment(id)).resp.experiment,
     artifacts |-> Handle(w, getArtifacts(id)).resp.list]

(* invalidateQueries of the keys a mutation's onSuccess names: the list is
   fetched again, and the experiment page keeps showing the experiment it has
   until the refetch of ['experiment', id] returns. *)
InvalidatedList(m) ==
    IF "experiments" \in MutationOptions(m).invalidates THEN NotLoaded ELSE fetched

InvalidatedDetail(m) ==
    IF "experiment" \in MutationOptions(m).invalidates /\ detail.loaded
    THEN [detail EXCEPT !.invalidated = TRUE]
    ELSE detail

(* The response of mutation m's request arrives (answered), or the request
   fails without one (API unreachable).  onSuccess invalidates the queries;
   onError exists for the create mutation only and sets the form's error. *)
Settle(m, answered) ==
    /\ mutations[m].status = "pending"
    /\ LET c  == mutations[m].call
           r  == Handle(World, RequestOf(c))
           ok == answered /\ r.resp.code \in 200 .. 299
       IN  /\ IF answered THEN Apply(c) ELSE UNCHANGED <<storeVars, last, createdAs>>
           /\ IF ok
              THEN /\ mutations' = [mutations EXCEPT ![m] =
                                       [Idle EXCEPT !.status = "success"]]
                   /\ fetched' = InvalidatedList(m)
                   /\ detail' = InvalidatedDetail(m)
                   /\ lastEvent' = Ran("onSuccess")
                   /\ UNCHANGED <<form, sent>>
              ELSE IF mutations[m].failureCount < MutationRetry(m)
              THEN /\ mutations' = [mutations EXCEPT ![m].failureCount = @ + 1]
                   /\ sent' = Append(sent, Issued(mutations[m].inv, c))
                   /\ lastEvent' = Ran("retry")
                   /\ UNCHANGED <<form, fetched, detail>>
              ELSE /\ mutations' = [mutations EXCEPT ![m] =
                                       [Idle EXCEPT !.status = "error"]]
                   /\ form' = IF MutationOptions(m).onError = "setError"
                              THEN [form EXCEPT !.error = ErrorMessage(answered)]
                              ELSE form
                   /\ lastEvent' = Ran("onError")
                   /\ UNCHANGED <<fetched, sent, detail>>
    /\ UNCHANGED <<net, searchQuery, page, statusFilter, sortVars, download, invoked>>

(* The request of a tags mutation that a later mutate() of the same
   useMutation has replaced is still under way (it is kept in net); its
   response arrives, or it fails.  The replaced mutation still runs the
   onSuccess of the useMutation options. *)
SettleReplaced(c, answered) ==
    /\ BagIn(c, net)
    /\ net' = net (-) SetToBag({c})
    /\ LET r  == Handle(World, RequestOf(c))
           ok == answered /\ r.resp.code \in 200 .. 299
       IN  /\ IF answered THEN Apply(c) ELSE UNCHANGED <<storeVars, last, createdAs>>
           /\ fetched' = IF ok THEN InvalidatedList("detailTags") ELSE fetched
           /\ detail' = IF ok THEN InvalidatedDetail("detailTags") ELSE detail
           /\ lastEvent' = Ran(IF ok THEN "onSuccess" ELSE "onError")
    /\ UNCHANGED <<searchQuery, page, statusFilter, sortVars, form, mutations,
                   download, sent, invoked>>

(* The refetch of the invalidated ['experiment', id] query returns. *)
DetailRefetched ==
    /\ detail.loaded
    /\ detail.invalidated
    /\ detail' = [detail EXCEPT !.invalidated = FALSE,
                                !.experiment = DetailData(World, detail.id).experiment]
    /\ UNCHANGED <<storeVars, netVars, dashVars, form, mutations, download, sent,
                   invoked, lastEvent>>

(***************************************************************************)
(* NewExperimentPage (frontend/app/experiments/new/page.tsx).              *)
(***************************************************************************)
setName(value) ==
    /\ form' = [form EXCEPT !.name = value]
    /\ lastEvent' = Ran("setName")
    /\ UNCHANGED <<storeVars, netVars, dashVars, mutations, detail, download, sent, invoked>>

setHyperparameters(value) ==
    /\ form' = [form EXCEPT !.hyperparameters = value]
    /\ lastEvent' = Ran("setHyperparameters")
    /\ UNCHANGED <<storeVars, netVars, dashVars, mutations, detail, download, sent, invoked>>

(* A submit handler that tests the name without trimming it. *)
handleSubmit_NoTrim ==
    /\ mutations["create"].status # "pending"
    /\ lastEvent' = Ran("handleSubmit")
    /\ IF form.name = <<>>
       THEN /\ form' = [form EXCEPT !.error = "Experiment name is required"]
            /\ UNCHANGED <<mutations, sent, invoked>>
       ELSE IF trim(form.hyperparameters) # <<>> /\ ~JSONparse(form.hyperparameters).ok
       THEN /\ form' = [form EXCEPT !.error = "Invalid JSON format for hyperparameters"]
            /\ UNCHANGED <<mutations, sent, invoked>>
       ELSE /\ form' = [form EXCEPT !.error = ""]
            /\ Mutate("create",
                      CallCreate([name |-> trim(form.name),
                                  hyperparameters |->
                                     IF trim(form.hyperparameters) # <<>>
                                     THEN JSONparse(form.hyperparameters).value
                                     ELSE JsonObject(<<>>),
                                  tags |-> form.tags]))
    /\ UNCHANGED <<storeVars, netVars, dashVars, detail, download>>

(* handleSubmit: the submit button is disabled while the mutation is pending *)
handleSubmit ==
    /\ mutations["create"].status # "pending"
    /\ lastEvent' = Ran("handleSubmit")
    /\ IF trim(form.name) = <<>>
       THEN /\ form' = [form EXCEPT !.error = "Experiment name is required"]
            /\ UNCHANGED <<mutations, sent, invoked>>
       ELSE IF trim(form.hyperparameters) # <<>> /\ ~JSONparse(form.hyperparameters).ok
       THEN /\ form' = [form EXCEPT !.error = "Invalid JSON format for hyperparameters"]
            /\ UNCHANGED <<mutations, sent, invoked>>
       ELSE /\ form' = [form EXCEPT !.error = ""]
            /\ Mutate("create",
                      CallCreate([name |-> trim(form.name),
                                  hyperparameters |->
                                     IF trim(form.hyperparameters) # <<>>
                                     THEN JSONparse(form.hyperparameters).value
                                     ELSE JsonObject(<<>>),
                                  tags |-> form.tags]))
    /\ UNCHANGED <<storeVars, netVars, dashVars, detail, download>>

(***************************************************************************)
(* SpecForm: the new-experiment form is filled in and submitted; the       *)
(* create request is answered, or fails because the API is unreachable.    *)
(***************************************************************************)
FormNames == {<<>>, <<" ">>, <<" ", "r", " ">>}

FormTexts ==
    {<<>>, <<" ">>, <<"{", "}">>, <<"{", "\"", "a", "\"", ":", "1", "}">>,
     <<"[", "1", "]">>, <<"7">>, <<"\"", "a", "\"">>, <<"t", "r", "u", "e">>,
     <<"n", "u", "l", "l">>, <<"{", "a", "}">>}

NextForm ==
    \/ \E n \in FormNames : setName(n)
    \/ \E t \in FormTexts : setHyperparameters(t)
    \/ handleSubmit
    \/ \E answered \in BOOLEAN : Settle("create", answered)

SpecForm == Init /\ [][NextForm]_vars

(* A text of nothing but spaces. *)
Blank(text) == \A k \in DOMAIN text : text[k] = " "

(* The texts of FormTexts that are JSON. *)
JsonTexts ==
    {<<"{", "}">>, <<"{", "\"", "a", "\"", ":", "1", "}">>, <<"[", "1", "]">>,
     <<"7">>, <<"\"", "a", "\"">>, <<"t", "r", "u", "e">>, <<"n", "u", "l", "l">>}

(* C14: validation of the new-experiment form.  Whenever handleSubmit runs
   with a blank name, or with a name and a hyperparameters text that is
   neither blank nor JSON, the page's error message is set afterwards and no
   request has been issued; whenever it runs with a name and a blank
   hyperparameters text, one create request is issued, carrying the trimmed
   name and the empty mapping. *)
C14_FormValidation ==
    [][ (lastEvent'.tick # lastEvent.tick /\ lastEvent'.handler = "handleSubmit") =>
          IF Blank(form.name)
             \/ (~Blank(form.hyperparameters) /\ form.hyperparameters \notin JsonTexts)
          THEN /\ form'.error # ""
               /\ sent' = sent
               /\ invoked' = invoked
               /\ UNCHANGED storeVars
          ELSE Blank(form.hyperparameters) =>
                  /\ Len(sent') = Len(sent) + 1
                  /\ sent'[Len(sent')].request.method = "POST"
                  /\ sent'[Len(sent')].request.path = <<Lit("experiments")>>
                  /\ sent'[Len(sent')].request.body.name = <<"r">>
                  /\ sent'[Len(sent')].request.body.hyperparameters = JsonObject(<<>>)
      ]_vars

(* C14 witness: after a create with blank hyperparameters text went through,
   the form was submitted with the text {a}; the error message is the one
   about the JSON format and the only request is still the first one, which
   carried the empty mapping. *)
C14_Witness ==
    /\ lastEvent.handler = "handleSubmit"
    /\ form.hyperparameters = <<"{", "a", "}">>
    /\ ~Blank(form.name)
    /\ form.error = "Invalid JSON format for hyperparameters"
    /\ Len(sent) = 1
    /\ sent[1].request.body.hyperparameters = JsonObject(<<>>)
    /\ Len(experiments) = 1
    /\ experiments[1].hyperparameters = JsonObject(<<>>)

(* C15: every create request the new-experiment form has issued carries
   hyperparameters that are a JSON object. *)
C15_ObjectHyperparameters ==
    \A k \in DOMAIN sent :
        sent[k].fn = "createExperiment" =>
           sent[k].request.body.hyperparameters.kind = "object"


(***************************************************************************)
(* The pages together: DashboardPage with its ExperimentsTable,            *)
(* NewExperimentPage and ExperimentDetailPage, against an API that other   *)
(* clients use too and that may be unreachable.                            *)
(***************************************************************************)

(* The retry count of a useQuery.  No useQuery of the pages passes a retry
   option; the count comes from the QueryClient that app/providers.tsx
   creates (app/layout.tsx imports it), and the description of the system
   says no request is retried anywhere. *)
QueryRetry == 0

(* The list request of DashboardPage's query fails.  The query re-issues it
   while its failure count is below the retry count, then holds the error. *)
QueryFailed ==
    /\ ~fetched.loaded
    /\ ~fetched.failed
    /\ fetched' = IF fetched.failureCount < QueryRetry
                  THEN [fetched EXCEPT !.failureCount = @ + 1]
                  ELSE [fetched EXCEPT !.failed = TRUE]
    /\ UNCHANGED <<storeVars, netVars, searchQuery, page, statusFilter, sortVars, uiVars>>

(* The rows ExperimentsTable is given: the table is rendered once the list
   has loaded without error. *)
TableRows ==
    IF fetched.loaded /\ ~fetched.failed
    THEN filteredExperiments(fetched.data, searchQuery, sortBy, sortOrder)
    ELSE <<>>

(* ExperimentsTable.handleStatusChange, from the status badge of a row; the
   badge is disabled while the status mutation is pending. *)
handleStatusChange(experimentId, newStatus) ==
    /\ \E i \in DOMAIN TableRows : TableRows[i].id = experimentId
    /\ mutations["tableStatus"].status # "pending"
    /\ Mutate("tableStatus", CallUpdateStatus(experimentId, newStatus))
    /\ lastEvent' = Ran("handleStatusChange")
    /\ UNCHANGED <<storeVars, netVars, dashVars, form, detail, download>>

(* A handleDelete that does not ask. *)
handleDelete_NoConfirm(experimentId, confirmed) ==
    /\ \E i \in DOMAIN TableRows : TableRows[i].id = experimentId
    /\ mutations["tableDelete"].status # "pending"
    /\ lastEvent' = Ran("handleDelete")
    /\ Mutate("tableDelete", CallDelete(experimentId))
    /\ UNCHANGED <<storeVars, netVars, dashVars, form, detail, download>>

(* ExperimentsTable.handleDelete, from the delete button of a row; the
   button is disabled while the delete mutation is pending, and the request
   is made only when window.confirm returns true. *)
handleDelete(experimentId, confirmed) ==
    /\ \E i \in DOMAIN TableRows : TableRows[i].id = experimentId
    /\ mutations["tableDelete"].status # "pending"
    /\ lastEvent' = Ran("handleDelete")
    /\ IF confirmed
       THEN Mutate("tableDelete", CallDelete(experimentId))
       ELSE UNCHANGED <<mutations, sent, invoked>>
    /\ UNCHANGED <<storeVars, netVars, dashVars, form, detail, download>>

(* ExperimentDetailPage is opened for params.id = experimentId and its
   experiment and artifacts queries return. *)
OpenDetail(experimentId) ==
    /\ detail' = DetailData(World, experimentId)
    /\ download' = Idle
    /\ mutations' = [mutations EXCEPT !["detailStatus"] = Idle, !["detailTags"] = Idle]
    /\ UNCHANGED <<storeVars, netVars, dashVars, form, sent, invoked, lastEvent>>

(* The page below "Experiment not found" is rendered only with an experiment. *)
DetailShown == detail.loaded /\ detail.experiment # NoExperiment

(* ExperimentDetailPage: the status badge's onStatusChange. *)
onStatusChange(newStatus) ==
    /\ DetailShown
    /\ mutations["detailStatus"].status # "pending"
    /\ Mutate("detailStatus", CallUpdateStatus(detail.id, newStatus))
    /\ lastEvent' = Ran("onStatusChange")
    /\ UNCHANGED <<storeVars, netVars, dashVars, form, detail, download>>

(* ExperimentDetailPage.handleAddTag with newTag typed into the tag input. *)
handleAddTag(newTag) ==
    /\ DetailShown
    /\ mutations["detailTags"].status # "pending"
    /\ lastEvent' = Ran("handleAddTag")
    /\ IF trim(newTag) # <<>>
       THEN Mutate("detailTags",
                   CallUpdateTags(detail.id,
                                  Append(detail.experiment.tags, trim(newTag))))
       ELSE UNCHANGED <<mutations, sent, invoked>>
    /\ UNCHANGED <<storeVars, netVars, dashVars, form, detail, download>>

(* ExperimentDetailPage.handleRemoveTag, from the badge of a shown tag.  The
   badges are not disabled while the tags mutation is pending: a mutate()
   then replaces the pending mutation, whose request goes on. *)
handleRemoveTag(tagToRemove) ==
    /\ DetailShown
    /\ tagToRemove \in Range(detail.experiment.tags)
    /\ BagCardinality(net) < MaxInFlight
    /\ net' = IF mutations["detailTags"].status = "pending"
              THEN net (+) SetToBag({mutations["detailTags"].call})
              ELSE net
    /\ Mutate("detailTags",
              CallUpdateTags(detail.id,
                             SelectSeq(detail.experiment.tags,
                                       LAMBDA tag : tag # tagToRemove)))
    /\ lastEvent' = Ran("handleRemoveTag")
    /\ UNCHANGED <<storeVars, last, createdAs, dashVars, form, detail, download>>

(* ExperimentDetailPage.handleDownload up to its await: the download button
   of a listed artifact. *)
handleDownload(artifactId) ==
    /\ DetailShown
    /\ \E i \in DOMAIN detail.artifacts : detail.artifacts[i].id = artifactId
    /\ download.status # "pending"
    /\ invoked < MaxCalls
    /\ invoked' = invoked + 1
    /\ sent' = Append(sent, Issued(invoked + 1, CallDownload(artifactId)))
    /\ download' = [status |-> "pending", call |-> CallDownload(artifactId),
                    inv |-> invoked + 1, failureCount |-> 0]
    /\ lastEvent' = Ran("handleDownload")
    /\ UNCHANGED <<storeVars, netVars, dashVars, form, mutations, detail>>

(* handleDownload after its await: the blob is saved, or the catch block
   writes the error to the console. *)
DownloadSettled(answered) ==
    /\ download.status = "pending"
    /\ LET r  == Handle(World, RequestOf(download.call))
           ok == answered /\ r.resp.code \in 200 .. 299
       IN  /\ IF answered THEN Apply(download.call)
                          ELSE UNCHANGED <<storeVars, last, createdAs>>
           /\ download' = [download EXCEPT !.status = IF ok THEN "saved" ELSE "failed"]
           /\ lastEvent' = Ran(IF ok THEN "saved" ELSE "console.error")
    /\ UNCHANGED <<net, dashVars, form, mutations, detail, sent, invoked>>

(* What each page renders of an error. *)
DashboardPageError == ~(~fetched.loaded /\ ~fetched.failed) /\ fetched.failed

NewExperimentPageError == form.error # ""

ExperimentsTableError == FALSE

ExperimentDetailPageError == detail.loaded /\ detail.experiment = NoExperiment

(* The store the pages start from: an earlier client created experiment 1
   with tag b and uploaded one artifact for it. *)
Stocked ==
    Handle(Handle([experiments |-> <<>>, metrics |-> <<>>, artifacts |-> <<>>,
                   nextExperimentId |-> 1, nextMetricId |-> 1,
                   nextArtifactId |-> 1],
                  createExperiment([name |-> NameRun, hyperparameters |-> HpNone,
                                    tags |-> <<TagB>>])).world,
           uploadArtifact(1, CHOOSE f \in FileInputs : TRUE)).world

InitUi ==
    /\ experiments = Stocked.experiments
    /\ metrics = Stocked.metrics
    /\ artifacts = Stocked.artifacts
    /\ nextExperimentId = Stocked.nextExperimentId
    /\ nextMetricId = Stocked.nextMetricId
    /\ nextArtifactId = Stocked.nextArtifactId
    /\ net = EmptyBag
    /\ last = [call |-> NoCall, resp |-> Response(0), from |-> Absent,
               had |-> NoneOwned]
    /\ createdAs = (1 :> [name |-> NameRun, hyperparameters |-> HpNone])
    /\ fetched = NotLoaded
    /\ searchQuery = <<>>
    /\ page = 1
    /\ statusFilter = "all"
    /\ sortBy = "date"
    /\ sortOrder = "desc"
    /\ InitPages

UiNames == {<<"r">>}

UiFilters == {"running"}

UiTags == {<<" ", "a">>}

NextUi ==
    \/ Await(CallDelete(1))
    \/ QueryDone
    \/ QueryFailed
    \/ \E v \in UiFilters : setStatusFilter(v)
    \/ \E n \in UiNames : setName(n)
    \/ handleSubmit
    \/ \E id \in IdInputs : handleStatusChange(id, "completed")
    \/ \E id \in IdInputs, confirmed \in BOOLEAN : handleDelete(id, confirmed)
    \/ ~detail.loaded /\ OpenDetail(1)
    \/ onStatusChange("failed")
    \/ \E t \in UiTags : handleAddTag(t)
    \/ handleRemoveTag(TagB)
    \/ \E a \in ArtifactIdInputs : handleDownload(a)
    \/ \E m \in MutationNames, answered \in BOOLEAN : Settle(m, answered)
    \/ \E c \in BagToSet(net), answered \in BOOLEAN : SettleReplaced(c, answered)
    \/ DetailRefetched
    \/ \E answered \in BOOLEAN : DownloadSettled(answered)

SpecUi == InitUi /\ [][NextUi]_vars


(***************************************************************************)
(* C12: every failed API call is surfaced as inline text in the UI: after  *)
(* a failed list, create, status update, tag update, experiment delete or  *)
(* artifact download, the page that made the call displays an error.       *)
(***************************************************************************)
C12_ErrorsSurfaced ==
    /\ fetched.failed => DashboardPageError
    /\ mutations["create"].status = "error" => NewExperimentPageError
    /\ \A m \in {"tableStatus", "tableDelete"} :
          mutations[m].status = "error" => (ExperimentsTableError \/ DashboardPageError)
    /\ \A m \in {"detailStatus", "detailTags"} :
          mutations[m].status = "error" => ExperimentDetailPageError
    /\ download.status = "failed" => ExperimentDetailPageError

(***************************************************************************)
(* C13: the client never retries.  Every invocation of an API function by  *)
(* a page has exactly one request, a request is issued only in the step in *)
(* which the user's handler invokes the function, and a list query that    *)
(* has failed is issued again only after the user changes the filter or    *)
(* the page, or after a mutation the user made has succeeded.              *)
(***************************************************************************)
UserHandlers == {"handleSubmit", "handleStatusChange", "handleDelete",
                 "onStatusChange", "handleAddTag", "handleRemoveTag",
                 "handleDownload"}

RequestsOf(log, n) == {k \in DOMAIN log : log[k].inv = n}

C13_NoRetry ==
    [][ /\ \A n \in 1 .. invoked' : Cardinality(RequestsOf(sent', n)) = 1
        /\ sent' # sent =>
              /\ Len(sent') = Len(sent) + 1
              /\ invoked' = invoked + 1
              /\ lastEvent'.tick # lastEvent.tick
              /\ lastEvent'.handler \in UserHandlers
        /\ fetched'.failureCount = 0
        /\ (fetched.failed /\ ~fetched'.failed) =>
              \/ statusFilter' # statusFilter
              \/ page' # page
              \/ lastEvent'.tick # lastEvent.tick /\ lastEvent'.handler = "onSuccess"
      ]_vars

(* The status update of a row failed, the user chose the status again, and
   that failed too: two invocations, two requests, and the list query has
   failed in between. *)
C13_Witness ==
    /\ mutations["tableStatus"].status = "error"
    /\ invoked = 2
    /\ Len(sent) = 2
    /\ sent[1].fn = "updateExperimentStatus"
    /\ sent[1].request = sent[2].request
    /\ fetched.failed


(***************************************************************************)
(* MetricsChart (frontend/components/experiments/metrics-chart.tsx): the   *)
(* fetched metrics are grouped by metric_name into an object literal, and  *)
(* one chart is rendered per entry with its points sorted by step.         *)
(***************************************************************************)

(* The property names an object literal {} inherits from Object.prototype:
   acc[name] is defined for them without an own property of that name. *)
ObjectPrototype == {"constructor", "toString", "valueOf", "hasOwnProperty",
                    "isPrototypeOf", "propertyIsEnumerable", "toLocaleString",
                    "__proto__"}

(* acc[name] is an own property of the accumulator. *)
HasOwn(acc, name) == \E i \in DOMAIN acc : acc[i].name = name

(* The reduce callback: if (!acc[name]) acc[name] = []; acc[name].push(metric).
   An inherited property is truthy, so no array is made for it, and it has no
   push: the call throws a TypeError. *)
GroupMetric(acc, metric) ==
    LET name == metric.metric_name IN
    IF HasOwn(acc.entries, name)
    THEN [acc EXCEPT !.entries =
             [i \in DOMAIN acc.entries |->
                 IF acc.entries[i].name = name
                 THEN [acc.entries[i] EXCEPT !.data = Append(@, metric)]
                 ELSE acc.entries[i]]]
    ELSE IF name \in ObjectPrototype
    THEN [acc EXCEPT !.threw = TRUE]
    ELSE [acc EXCEPT !.entries = Append(@, [name |-> name, data |-> <<metric>>])]

(* metrics.reduce(callback, {}): an exception ends it. *)
RECURSIVE metricsByName(_, _)
metricsByName(acc, rest) ==
    IF acc.threw \/ rest = <<>> THEN acc
    ELSE metricsByName(GroupMetric(acc, Head(rest)), Tail(rest))

(* metricData.sort((a, b) => a.step - b.step): a stable sort. *)
RECURSIVE InsertByStep(_, _)
InsertByStep(out, m) ==
    IF out # <<>> /\ out[Len(out)].step - m.step > 0
    THEN Append(InsertByStep(SubSeq(out, 1, Len(out) - 1), m), out[Len(out)])
    ELSE Append(out, m)

RECURSIVE SortByStep(_, _)
SortByStep(out, rest) ==
    IF rest = <<>> THEN out
    ELSE SortByStep(InsertByStep(out, Head(rest)), Tail(rest))

(* chartData of one entry, and the "n data points" line under the chart. *)
chartData(metricData) ==
    LET sorted == SortByStep(<<>>, metricData)
    IN  [i \in DOMAIN sorted |-> [step |-> sorted[i].step, value |-> sorted[i].value]]

(* What MetricsChart renders for its metrics prop: the empty state, one card
   per entry, or nothing when rendering throws. *)
MetricsChart(metricList) ==
    IF Len(metricList) = 0
    THEN [shown |-> "No metrics data available", cards |-> <<>>]
    ELSE LET grouped == metricsByName([threw |-> FALSE, entries |-> <<>>], metricList)
         IN  IF grouped.threw
             THEN [shown |-> "TypeError", cards |-> <<>>]
             ELSE [shown |-> "charts",
                   cards |-> [i \in DOMAIN grouped.entries |->
                                [title |-> grouped.entries[i].name,
                                 data |-> chartData(grouped.entries[i].data),
                                 points |-> Len(chartData(grouped.entries[i].data))]]]

(* The metrics tab of the experiment page of experiment 1. *)
RenderedChart == MetricsChart(ListedMetrics(1))

ChartNames == {"loss", "acc", "constructor"}

ChartPoints ==
    {Point(st, n, 5) : st \in {1, 2}, n \in ChartNames} \cup {Point(1, "loss", 7)}

NextChart ==
    \/ Await(CallCreate([name |-> NameTest, hyperparameters |-> HpLr, tags |-> <<>>]))
    \/ \E p \in ChartPoints : Await(CallLog(1, <<p>>))

SpecChart == Init /\ [][NextChart]_vars

(* How often point x occurs in the sequence s. *)
TimesIn(s, x) == Cardinality({i \in DOMAIN s : s[i] = x})

PlotOf(m) == [step |-> m.step, value |-> m.value]

(***************************************************************************)
(* C21: the charts partition the fetched metrics.  Every fetched metric    *)
(* has exactly one chart, the one titled with its metric_name; a chart     *)
(* holds exactly the points of its name, in ascending step order, and      *)
(* shows their number; an empty list renders the empty state and no chart. *)
(***************************************************************************)
C21_ChartPartition ==
    LET fetchedMetrics == ListedMetrics(1)
        r == RenderedChart
    IN  /\ fetchedMetrics = <<>> =>
              r.shown = "No metrics data available" /\ r.cards = <<>>
        /\ fetchedMetrics # <<>> =>
              /\ r.shown = "charts"
              /\ \A k \in DOMAIN fetchedMetrics :
                    Cardinality({i \in DOMAIN r.cards :
                                    r.cards[i].title = fetchedMetrics[k].metric_name}) = 1
              /\ \A i \in DOMAIN r.cards :
                    LET named == NamedPoints(fetchedMetrics, r.cards[i].title)
                        data == r.cards[i].data
                    IN  /\ named # <<>>
                        /\ r.cards[i].points = Len(named)
                        /\ Len(data) = Len(named)
                        /\ \A j \in DOMAIN named :
                              TimesIn(data, PlotOf(named[j]))
                                 = Cardinality({h \in DOMAIN named :
                                                  PlotOf(named[h]) = PlotOf(named[j])})
                        /\ \A j \in 1 .. Len(data) - 1 : data[j].step <= data[j + 1].step


(***************************************************************************)
(* C22: the sort control.  From (date, desc), a click on the header of the *)
(* current sort field keeps the field and flips the order; a click on      *)
(* another field makes it the sort field with order desc.  So two clicks   *)
(* on one header, the first of which changed the field, end in asc.        *)
(***************************************************************************)
SortState == [sortBy |-> sortBy, sortOrder |-> sortOrder]

Flipped(order) == IF order = "asc" THEN "desc" ELSE "asc"

C22_SortControl ==
    [][ /\ SortState' # SortState =>
              /\ sortBy' \in SortFields
              /\ sortOrder' \in {"asc", "desc"}
              /\ sortBy' = sortBy => sortOrder' = Flipped(sortOrder)
              /\ sortBy' # sortBy => sortOrder' = "desc"
        /\ \A f \in SortFields :
              /\ handleSort(f) =>
                    /\ sortBy' = f
                    /\ sortBy = f => sortOrder' # sortOrder
              /\ f # sortBy =>
                    handleSortFrom(handleSortFrom(SortState, f), f)
                       = [sortBy |-> f, sortOrder |-> "asc"]
      ]_vars

(* The name header was clicked twice from the initial (date, desc). *)
C22_Witness == fetched.loaded /\ sortBy = "name" /\ sortOrder = "asc"


(***************************************************************************)
(* C26: the page number.  It is an integer >= 1 at all times; it goes down *)
(* by one only from a page above 1 (Previous is disabled on page 1) and up *)
(* by one only when the list fetched for the current page holds exactly 20 *)
(* experiments (Next is disabled otherwise).                               *)
(***************************************************************************)
C26_PageNumber ==
    [][ /\ page \in Nat /\ page >= 1
        /\ page' \in Nat /\ page' >= 1
        /\ page' # page =>
              /\ fetched.loaded
              /\ \/ page' = page - 1 /\ page > 1
                 \/ page' = page + 1 /\ Len(fetched.data) = FullPage
        /\ (fetched.loaded /\ Len(fetched.data) # FullPage) => page' <= page
        /\ page = 1 => page' >= page
      ]_vars

(* The dashboard went past two full pages and the third is not full. *)
C26_Witness ==
    /\ page = 3
    /\ fetched.loaded
    /\ Len(fetched.data) \in 1 .. FullPage - 1

(***************************************************************************)
(* SpecPageFilter: the dashboard pages through the list while the status   *)
(* select and the search box are used and some experiments complete.       *)
(***************************************************************************)
PageFilterItems == {"all", "running", "completed"}

PageQueries == {<<>>, <<"T">>}

PageStatusInputs == {1, 22}

NextPageFilter ==
    \/ QueryDone
    \/ NextPage
    \/ PreviousPage
    \/ \E v \in PageFilterItems : setStatusFilter(v)
    \/ \E q \in PageQueries : SetSearchQuery(q)
    \/ \E id \in PageStatusInputs : Await(CallUpdateStatus(id, "completed"))

SpecPageFilter == InitPage /\ [][NextPageFilter]_vars

(* The experiments the filter value selects, in store order. *)
Selected(value) ==
    LET chosen(e) == value = "all" \/ e.status = value
    IN  SelectSeq(experiments, chosen)

(***************************************************************************)
(* C27: changing the status filter or the search text keeps the page       *)
(* number; the list then requested is page p of the newly filtered list,   *)
(* skip = (p-1)*20, and not page 1.                                        *)
(***************************************************************************)
C27_FilterKeepsPage ==
    [][ /\ (statusFilter' # statusFilter \/ searchQuery' # searchQuery) => page' = page
        /\ (~fetched.loaded /\ fetched'.loaded) =>
              /\ getExperiments(page, statusFilter).params.skip = (page - 1) * 20
              /\ fetched'.data
                    = SubSeq(Selected(statusFilter), (page - 1) * 20 + 1,
                             Min2(page * 20, Len(Selected(statusFilter))))
      ]_vars

(* The filter was changed on page 2 and the list of the new filter came:
   the second page of the completed experiments, which is empty. *)
C27_Witness ==
    /\ page = 2
    /\ statusFilter = "completed"
    /\ fetched.loaded
    /\ Len(Selected("completed")) \in 1 .. 20
    /\ fetched.data = <<>>


(***************************************************************************)
(* The tag list of NewExperimentPage: the tag input, handleAddTag and      *)
(* handleRemoveTag of the form.                                            *)
(***************************************************************************)

(* Typing in the form's tag input. *)
setNewTag(value) ==
    /\ form' = [form EXCEPT !.newTag = value]
    /\ UNCHANGED <<storeVars, netVars, dashVars, mutations, detail, download, sent,
                   invoked, lastEvent>>

(* A handleAddTag of the form that does not look whether the list includes
   the tag. *)
formHandleAddTag_NoIncludes ==
    /\ lastEvent' = Ran("form.handleAddTag")
    /\ form' = IF trim(form.newTag) # <<>>
               THEN [form EXCEPT !.tags = Append(@, trim(form.newTag)),
                                 !.newTag = <<>>]
               ELSE form
    /\ UNCHANGED <<storeVars, netVars, dashVars, mutations, detail, download, sent,
                   invoked>>

(* NewExperimentPage.handleAddTag, from the Add button or the Enter key. *)
formHandleAddTag ==
    /\ lastEvent' = Ran("form.handleAddTag")
    /\ form' = IF trim(form.newTag) # <<>> /\ trim(form.newTag) \notin Range(form.tags)
               THEN [form EXCEPT !.tags = Append(@, trim(form.newTag)),
                                 !.newTag = <<>>]
               ELSE form
    /\ UNCHANGED <<storeVars, netVars, dashVars, mutations, detail, download, sent,
                   invoked>>

(* NewExperimentPage.handleRemoveTag, from the badge of a tag of the list. *)
formHandleRemoveTag(tagToRemove) ==
    /\ tagToRemove \in Range(form.tags)
    /\ lastEvent' = Ran("form.handleRemoveTag")
    /\ form' = [form EXCEPT !.tags = SelectSeq(@, LAMBDA tag : tag # tagToRemove)]
    /\ UNCHANGED <<storeVars, netVars, dashVars, mutations, detail, download, sent,
                   invoked>>

TagTexts == {<<>>, <<" ">>, <<"a">>, <<" ", "a", " ">>, <<"b">>, <<"a", " ", "b">>}

NextTags ==
    \/ \E t \in TagTexts : setNewTag(t)
    \/ formHandleAddTag
    \/ \E t \in TagTexts : formHandleRemoveTag(t)

SpecTags == Init /\ [][NextTags]_vars

(* No element of the sequence occurs twice. *)
NoDuplicates(s) == \A i, j \in DOMAIN s : s[i] = s[j] => i = j

(* s without its k-th element. *)
Without(s, k) == SubSeq(s, 1, k - 1) \o SubSeq(s, k + 1, Len(s))

(***************************************************************************)
(* C29: the tag list of the new-experiment form never holds a duplicate,   *)
(* an empty or an untrimmed string; adding a blank tag or a tag of the     *)
(* list leaves the list unchanged; removing a tag deletes exactly that     *)
(* tag and keeps the order of the others.                                  *)
(***************************************************************************)
C29_FormTags ==
    [][ /\ NoDuplicates(form'.tags)
        /\ \A i \in DOMAIN form'.tags :
              /\ form'.tags[i] # <<>>
              /\ Head(form'.tags[i]) # " "
              /\ form'.tags[i][Len(form'.tags[i])] # " "
        /\ (lastEvent' # lastEvent /\ lastEvent'.handler = "form.handleAddTag") =>
              /\ Blank(form.newTag) => form'.tags = form.tags
              /\ (\E i \in DOMAIN form.tags : form.tags[i] = trim(form.newTag)) =>
                    form'.tags = form.tags
              /\ form'.tags # form.tags =>
                    /\ Len(form'.tags) = Len(form.tags) + 1
                    /\ SubSeq(form'.tags, 1, Len(form.tags)) = form.tags
        /\ (lastEvent' # lastEvent /\ lastEvent'.handler = "form.handleRemoveTag") =>
              \E k \in DOMAIN form.tags : form'.tags = Without(form.tags, k)
      ]_vars

(* The middle one of three tags was removed; the tag "a" had been typed
   with spaces around it. *)
C29_Witness ==
    /\ lastEvent.handler = "form.handleRemoveTag"
    /\ form.tags = <<TagA, TagB>>
    /\ form.newTag = <<" ", "a", " ">>


(***************************************************************************)
(* SpecViews: the two views that change experiments, ExperimentsTable on   *)
(* the dashboard and ExperimentDetailPage of experiment 1, on the stocked  *)
(* store; requests succeed, are refused or fail.                           *)
(***************************************************************************)
ViewMutations == {"tableStatus", "tableDelete", "detailStatus", "detailTags"}

ViewTags == {<<" ", "a">>, <<"b">>, <<"c">>}

NextViews ==
    \/ QueryDone
    \/ handleStatusChange(1, "completed")
    \/ \E confirmed \in BOOLEAN : handleDelete(1, confirmed)
    \/ ~detail.loaded /\ OpenDetail(1)
    \/ onStatusChange("failed")
    \/ \E t \in ViewTags : handleAddTag(t)
    \/ \E t \in {TagA, TagB} : handleRemoveTag(t)
    \/ \E m \in ViewMutations, answered \in BOOLEAN : Settle(m, answered)
    \/ \E c \in BagToSet(net), answered \in BOOLEAN : SettleReplaced(c, answered)
    \/ DetailRefetched

SpecViews == InitUi /\ [][NextViews]_vars

(***************************************************************************)
(* SpecAddTags: tags are added on the experiment page of experiment 1,     *)
(* one after another; nothing else changes the experiment.                 *)
(***************************************************************************)
NextAddTags ==
    \/ ~detail.loaded /\ OpenDetail(1)
    \/ \E t \in ViewTags : handleAddTag(t)
    \/ \E answered \in BOOLEAN : Settle("detailTags", answered)
    \/ DetailRefetched
    \/ QueryDone

SpecAddTags == InitUi /\ [][NextAddTags]_vars


(* What the store holds for experiment 1, the experiment of the page. *)
StoredExperiment == Fetch(getExperiment(1)).experiment

(***************************************************************************)
(* C23: cache invalidation after a mutation of the experiment page.  When  *)
(* its status or tag update succeeds, the cached experiment and the cached *)
(* list are both invalidated, and when their refetch completes the status  *)
(* and tags displayed are the stored ones; when the update fails, nothing  *)
(* is invalidated and the displayed data stay as they are.                 *)
(***************************************************************************)
C23_Invalidation ==
    [][ /\ \A m \in {"detailStatus", "detailTags"} :
              /\ (mutations[m].status = "pending" /\ mutations'[m].status = "success") =>
                    /\ detail'.invalidated
                    /\ detail'.experiment = detail.experiment
                    /\ ~fetched'.loaded
              /\ (mutations[m].status = "pending" /\ mutations'[m].status = "error") =>
                    /\ detail' = detail
                    /\ fetched' = fetched
        /\ (detail.invalidated /\ ~detail'.invalidated) =>
              /\ detail'.experiment.status = StoredExperiment'.status
              /\ detail'.experiment.tags = StoredExperiment'.tags
        /\ (~fetched.loaded /\ fetched'.loaded) =>
              \A i \in DOMAIN fetched'.data :
                 fetched'.data[i].id = 1 =>
                    /\ fetched'.data[i].status = StoredExperiment'.status
                    /\ fetched'.data[i].tags = StoredExperiment'.tags
      ]_vars

(* Tag a was added on the experiment page, and both refetches are done:
   the page and the list show the tags b, a. *)
C23_Witness ==
    /\ mutations["detailTags"].status = "success"
    /\ detail.loaded /\ ~detail.invalidated
    /\ detail.experiment.tags = <<TagB, TagA>>
    /\ fetched.loaded
    /\ Len(fetched.data) = 1
    /\ fetched.data[1].tags = <<TagB, TagA>>

(***************************************************************************)
(* C24: adding tags one after another on the experiment page loses no tag. *)
(* If tag A was added and its update succeeded, and tag B is then added    *)
(* from the same page, the refetch of the experiment done or not, the      *)
(* stored tag list after B's update has succeeded contains A and B.        *)
(***************************************************************************)
C24_NoTagLost ==
    [][ ( /\ mutations["detailTags"].status = "pending"
          /\ mutations'["detailTags"].status = "success"
          /\ last.call.fn = "updateExperimentTags"
          /\ last.resp.code = 200 )
        => /\ \E i \in DOMAIN StoredExperiment'.tags :
                 StoredExperiment'.tags[i] = last.call.tags[Len(last.call.tags)]
           /\ \E i \in DOMAIN StoredExperiment'.tags :
                 StoredExperiment'.tags[i]
                    = mutations["detailTags"].call.tags[
                         Len(mutations["detailTags"].call.tags)]
      ]_vars

(***************************************************************************)
(* C25: at most one update of a kind is in flight per view.  While a       *)
(* status update of the table, a status update of the experiment page, a   *)
(* delete of the table or a tag update of the experiment page is pending,  *)
(* its controls are disabled and no second one is issued from the view.    *)
(***************************************************************************)
InFlightFrom(m) ==
    (IF mutations[m].status = "pending" THEN 1 ELSE 0)
       + InFlightOf(MutationOptions(m).mutationFn, BagToSet(net))

C25_OneInFlight == \A m \in ViewMutations : InFlightFrom(m) <= 1

(***************************************************************************)
(* C28: an experiment is deleted from the dashboard only after             *)
(* confirmation.  A click on the delete button issues the delete request   *)
(* if and only if the user accepts the dialog; declining issues no request *)
(* and changes nothing.                                                    *)
(***************************************************************************)
C28_ConfirmedDelete ==
    [][ /\ \A id \in IdInputs, accepted \in BOOLEAN :
              handleDelete(id, accepted) =>
                 /\ accepted <=> sent' # sent
                 /\ accepted =>
                       /\ Len(sent') = Len(sent) + 1
                       /\ sent'[Len(sent')].request = deleteExperiment(id)
                       /\ mutations'["tableDelete"].status = "pending"
                 /\ ~accepted =>
                       UNCHANGED <<storeVars, netVars, dashVars, form, mutations,
                                   detail, download, sent, invoked>>
        /\ (Len(sent') > Len(sent) /\ sent'[Len(sent')].fn = "deleteExperiment") =>
              /\ lastEvent'.handler = "handleDelete"
              /\ lastEvent'.tick # lastEvent.tick
        /\ Len(experiments') < Len(experiments) =>
              /\ mutations["tableDelete"].status = "pending"
              /\ \E k \in DOMAIN sent : sent[k].inv = mutations["tableDelete"].inv
      ]_vars

(* The dialog was accepted for experiment 1 and the delete went through. *)
C28_Witness ==
    /\ mutations["tableDelete"].status = "success"
    /\ experiments = <<>>
    /\ Len(sent) = 1
    /\ sent[1].request = deleteExperiment(1)

(***************************************************************************)
(* C30: tag edits on the experiment page never produce duplicate tags.     *)
(* The experiment's tags were duplicate-free; after any sequence of        *)
(* add-tag and remove-tag actions every tag list sent to update_tags, and  *)
(* the list it stored, holds each tag at most once.                        *)
(***************************************************************************)
C30_NoDuplicateTags ==
    /\ \A k \in DOMAIN sent :
          sent[k].fn = "updateExperimentTags" =>
             NoDuplicates(sent[k].request.body.tags)
    /\ \A i \in DOMAIN experiments : NoDuplicates(experiments[i].tags)

====
